---- MODULE Spec2Model ----
(***************************************************************************)
(* Vacation planner: the vacation optimizer (package optimizer), the       *)
(* dates-to-blocks converter of the API handlers and the holiday service's *)
(* background retry machinery (package holidays).                          *)
(*                                                                         *)
(* Six state machines share this module, each starting with the others at  *)
(* rest:                                                                   *)
(*   SpecOpt  one Optimizer value built from bounded inputs, on which      *)
(*            Optimize and then datesToBlocks are run;                     *)
(*   SpecSvc  one HolidayService with its request threads, retry loops     *)
(*            and refresh goroutines for a single year;                    *)
(*   SpecHol  the holiday functions of package holidays (Easter, the       *)
(*            fallback calendar, GetPortugueseHolidaysWithCity);           *)
(*   SpecD2b  datesToBlocks on a bounded list of strings;                  *)
(*   SpecHnd  the OptimizeVacations handler over its tables.               *)
(*   SpecTab  the requests that write the vacation tables, in sequence.    *)
(***************************************************************************)
EXTENDS Integers, Sequences, FiniteSets, TLC

VARIABLES
    \* ---- optimizer machine ----
    Holidays,         \* Optimizer.Holidays: sequence of holiday date strings
    WorkWeek,         \* Optimizer.WorkWeek: sequence of weekday names
    ManualVacations,  \* Optimizer.ManualVacations: sequence of date strings
    VacationDays,     \* Optimizer.VacationDays: the day budget
    Strategy,         \* Optimizer.Strategy
    result,           \* what Optimize returned (sequence of VacationBlock)
    converted,        \* what datesToBlocks returned for the result's dates
    phase,            \* "new" | "optimized" | "converted"
    \* ---- holiday service machine (one year) ----
    status,           \* s.status[year]: 0 (no entry) or the id of a HolidayStatus
    heap,             \* the HolidayStatus objects, by id
    stopRetry,        \* s.stopRetry[year]: 0 (no entry) or the id of a stop channel
    closed,           \* closed[c]: stop channel c has been closed
    nchan,            \* how many stop channels have been made
    loop,             \* loop[c]: the retry goroutine that selects on channel c
    rounds,           \* rounds[c]: fetch rounds loop c has begun so far
    req,              \* req[t]: request goroutine t (a gin handler)
    bg,               \* bg[t]: the refreshInBackground goroutine spawned by t
    db,               \* table holidays: which types have rows for the year
    statusMuxLost,    \* statusMux is held by a goroutine that panicked
    \* ---- holiday functions machine ----
    year,             \* the year the holiday functions are asked about
    easterSunday,     \* <<>>, or <<t>> for the time t calculateEaster(year) returned
    holidayCache,     \* holidayCache, by cache key (year, or year and city)
    got,              \* the last return of GetPortugueseHolidaysWithCity
    \* ---- dates-to-blocks machine ----
    d2bArgs,          \* the arguments of a datesToBlocks call
    d2bRet,           \* <<>>, or <<r>> for what the call returned
    d2bAgain,         \* <<>>, or <<c>> for a second call on a rearranged list
    \* ---- optimize handler machine ----
    year_config,      \* the year_config row of the year
    vacation_days,    \* table vacation_days: rows [year, date]
    optimal_vacations \* table optimal_vacations: the dates stored for the year

optVars == <<Holidays, WorkWeek, ManualVacations, VacationDays, Strategy,
             result, converted, phase>>

svcVars == <<status, heap, stopRetry, closed, nchan, loop, rounds,
             req, bg, db, statusMuxLost>>

holVars == <<year, easterSunday, holidayCache, got>>

d2bVars == <<d2bArgs, d2bRet, d2bAgain>>

hndVars == <<year_config, vacation_days, optimal_vacations>>

vars == <<optVars, svcVars, holVars, d2bVars, hndVars>>

\* the variables of the other machines, which a machine's steps leave alone
othersOfOpt == <<svcVars, holVars, d2bVars, hndVars>>

othersOfSvc == <<optVars, holVars, d2bVars, hndVars>>

othersOfHol == <<optVars, svcVars, d2bVars, hndVars>>

othersOfD2b == <<optVars, svcVars, holVars, hndVars>>

othersOfHnd == <<svcVars, holVars, d2bVars>>

(***************************************************************************)
(* Bounds of the optimizer machine.                                        *)
(***************************************************************************)
MaxHolidays == 2      \* holidays in the list
WindowLen == 7        \* holidays and manual vacations fall on the first WindowLen days of the year
MaxBudget == 2        \* budgets range over -1 .. MaxBudget
Horizon == 21         \* days a backward or forward expansion of datesToBlocks may run before it is cut off

(***************************************************************************)
(* Calendar.  A time.Time at midnight UTC is modelled by its day number,   *)
(* day 0 being 1 January of Year.  A date string "YYYY-MM-DD" is modelled  *)
(* by the triple <<YYYY, MM, DD>>; Format and Parse convert between the    *)
(* two by the Gregorian calendar.                                          *)
(***************************************************************************)
Year == 2025

IsLeap(y) == (y % 4 = 0 /\ y % 100 # 0) \/ y % 400 = 0

DaysInMonth(y, m) ==
    IF m = 2 THEN (IF IsLeap(y) THEN 29 ELSE 28)
    ELSE IF m \in {4, 6, 9, 11} THEN 30 ELSE 31

DaysInYear(y) == IF IsLeap(y) THEN 366 ELSE 365

RECURSIVE MonthDay(_, _, _)
MonthDay(y, m, r) ==
    IF r < DaysInMonth(y, m) THEN <<y, m, r + 1>>
    ELSE MonthDay(y, m + 1, r - DaysInMonth(y, m))

\* time.Time.Format("2006-01-02")
RECURSIVE FormatFrom(_, _)
FormatFrom(y, d) ==
    IF d < 0 THEN FormatFrom(y - 1, d + DaysInYear(y - 1))
    ELSE IF d >= DaysInYear(y) THEN FormatFrom(y + 1, d - DaysInYear(y))
    ELSE MonthDay(y, 1, d)

\* the days the model's dates range over, and their strings
DayRange == (0 - 14 - Horizon)..(WindowLen + 7 + Horizon)

FormatTable == [d \in DayRange |-> FormatFrom(Year, d)]

Format(d) == FormatTable[d]

RECURSIVE DaysBeforeMonth(_, _)
DaysBeforeMonth(y, m) ==
    IF m = 1 THEN 0 ELSE DaysBeforeMonth(y, m - 1) + DaysInMonth(y, m - 1)

RECURSIVE DaysBeforeYear(_)
DaysBeforeYear(y) ==
    IF y = Year THEN 0
    ELSE IF y > Year THEN DaysBeforeYear(y - 1) + DaysInYear(y - 1)
    ELSE DaysBeforeYear(y + 1) - DaysInYear(y)

\* time.Parse("2006-01-02", s) of a well-formed date string
Parse(s) == DaysBeforeYear(s[1]) + DaysBeforeMonth(s[1], s[2]) + s[3] - 1

\* time.Time.Weekday(): 0 = Sunday .. 6 = Saturday.  1 January of year y
\* falls on weekday (1 + 5((y-1)%4) + 4((y-1)%100) + 6((y-1)%400)) % 7.
Jan1Weekday(y) ==
    (1 + 5 * ((y - 1) % 4) + 4 * ((y - 1) % 100) + 6 * ((y - 1) % 400)) % 7

YearStartWeekday == Jan1Weekday(Year)

Weekday(d) == (d + YearStartWeekday) % 7

Sunday == 0
Monday == 1
Tuesday == 2
Wednesday == 3
Thursday == 4
Friday == 5
Saturday == 6

weekdayToString(day) ==
    CASE day = Monday -> "monday"
      [] day = Tuesday -> "tuesday"
      [] day = Wednesday -> "wednesday"
      [] day = Thursday -> "thursday"
      [] day = Friday -> "friday"
      [] day = Saturday -> "saturday"
      [] day = Sunday -> "sunday"
      [] OTHER -> ""

Range(s) == {s[i] : i \in 1..Len(s)}

(***************************************************************************)
(* Optimizer helpers.  They read the Optimizer's fields (the variables).   *)
(***************************************************************************)
isWeekend(date) == weekdayToString(Weekday(date)) \notin Range(WorkWeek)

isWorkDay(date) == ~isWeekend(date)

isManualVacation(dateStr) == dateStr \in Range(ManualVacations)

IsHoliday(date) == Format(date) \in Range(Holidays)

RECURSIVE findWeekStart(_)
findWeekStart(date) ==
    IF Weekday(date) # Monday THEN findWeekStart(date - 1) ELSE date

EmptyBlock(start, end) ==
    [StartDate |-> Format(start), EndDate |-> Format(end), TotalDays |-> 0,
     VacationDaysUsed |-> 0, Dates |-> <<>>, Holidays |-> <<>>, Weekends |-> <<>>]

\* one iteration of calculateBlock's loop for day `current`
\* (mutant: the holiday branch is missing, a holiday costs a vacation day)
MutClassifyDay(block, current) ==
    LET dateStr == Format(current)
        b1 == [block EXCEPT !.Dates = Append(@, dateStr), !.TotalDays = @ + 1]
    IN  IF isWeekend(current) THEN [b1 EXCEPT !.Weekends = Append(@, dateStr)]
        ELSE IF isWorkDay(current) /\ ~isManualVacation(dateStr)
             THEN [b1 EXCEPT !.VacationDaysUsed = @ + 1]
        ELSE b1

ClassifyDay(block, current) ==
    LET dateStr == Format(current)
        b1 == [block EXCEPT !.Dates = Append(@, dateStr), !.TotalDays = @ + 1]
    IN  IF isWeekend(current) THEN [b1 EXCEPT !.Weekends = Append(@, dateStr)]
        ELSE IF IsHoliday(current) THEN [b1 EXCEPT !.Holidays = Append(@, dateStr)]
        ELSE IF isWorkDay(current) /\ ~isManualVacation(dateStr)
             THEN [b1 EXCEPT !.VacationDaysUsed = @ + 1]
        ELSE b1

RECURSIVE CalcLoop(_, _, _)
CalcLoop(block, current, end) ==
    IF current > end THEN block
    ELSE CalcLoop(ClassifyDay(block, current), current + 1, end)

calculateBlock(start, end) == CalcLoop(EmptyBlock(start, end), start, end)

\* `if block.VacationDaysUsed > 0 { opportunities = append(opportunities, block) }`
\* (mutant: the filter is missing)
MutKeepIfSpends(block) == <<block>>

KeepIfSpends(block) == IF block.VacationDaysUsed > 0 THEN <<block>> ELSE <<>>

\* (mutant: a Thursday holiday is bridged to the day before it)
MutBridgesOf(holidayDate) ==
    LET dayOfWeek == Weekday(holidayDate)
    IN  CASE dayOfWeek = Monday ->
               KeepIfSpends(calculateBlock(holidayDate - 3, holidayDate))
          [] dayOfWeek = Tuesday ->
               KeepIfSpends(calculateBlock(holidayDate - 1, holidayDate))
          [] dayOfWeek = Thursday ->
               KeepIfSpends(calculateBlock(holidayDate - 1, holidayDate))
          [] dayOfWeek = Friday ->
               KeepIfSpends(calculateBlock(holidayDate, holidayDate + 3))
          [] dayOfWeek = Wednesday ->
               KeepIfSpends(calculateBlock(holidayDate - 2, holidayDate))
               \o KeepIfSpends(calculateBlock(holidayDate, holidayDate + 2))
          [] OTHER -> <<>>

\* the candidate windows of one holiday, by its weekday
BridgesOf(holidayDate) ==
    LET dayOfWeek == Weekday(holidayDate)
    IN  CASE dayOfWeek = Monday ->
               KeepIfSpends(calculateBlock(holidayDate - 3, holidayDate))
          [] dayOfWeek = Tuesday ->
               KeepIfSpends(calculateBlock(holidayDate - 1, holidayDate))
          [] dayOfWeek = Thursday ->
               KeepIfSpends(calculateBlock(holidayDate, holidayDate + 1))
          [] dayOfWeek = Friday ->
               KeepIfSpends(calculateBlock(holidayDate, holidayDate + 3))
          [] dayOfWeek = Wednesday ->
               KeepIfSpends(calculateBlock(holidayDate - 2, holidayDate))
               \o KeepIfSpends(calculateBlock(holidayDate, holidayDate + 2))
          [] OTHER -> <<>>

RECURSIVE BridgeLoop(_)
BridgeLoop(i) ==
    IF i > Len(Holidays) THEN <<>>
    ELSE BridgesOf(Parse(Holidays[i])) \o BridgeLoop(i + 1)

findBridgeOpportunities == BridgeLoop(1)

WeeksOf(holidayDate) ==
    LET weekStart == findWeekStart(holidayDate)
        weekEnd == weekStart + 6
        block == calculateBlock(weekStart, weekEnd)
        twoWeekStart == weekStart - 7
        block2 == calculateBlock(twoWeekStart, weekEnd)
    IN  (IF block.VacationDaysUsed > 0 /\ block.TotalDays >= 7 THEN <<block>> ELSE <<>>)
        \o (IF block2.VacationDaysUsed > 0 /\ block2.TotalDays >= 14 THEN <<block2>> ELSE <<>>)

RECURSIVE WeekLoop(_)
WeekLoop(i) ==
    IF i > Len(Holidays) THEN <<>>
    ELSE WeeksOf(Parse(Holidays[i])) \o WeekLoop(i + 1)

RECURSIVE DedupLoop(_, _, _)
DedupLoop(blocks, i, unique) ==
    IF i > Len(blocks) THEN unique
    ELSE IF \E j \in 1..Len(unique) :
               /\ unique[j].StartDate = blocks[i].StartDate
               /\ unique[j].EndDate = blocks[i].EndDate
         THEN DedupLoop(blocks, i + 1, unique)
         ELSE DedupLoop(blocks, i + 1, Append(unique, blocks[i]))

deduplicateBlocks(blocks) == DedupLoop(blocks, 1, <<>>)

findAllOpportunities == deduplicateBlocks(findBridgeOpportunities \o WeekLoop(1))

(***************************************************************************)
(* sort.Slice(opportunities, less).  For slices of at most 12 elements the *)
(* Go runtime sorts by insertion: for i := 1; i < n; i++ { for j := i;     *)
(* j > 0 && less(data[j], data[j-1]); j-- { swap(j, j-1) } }.  The pools   *)
(* of this model stay below that length.  The float64 scores are compared  *)
(* exactly, by cross-multiplication: the operands are small integers, for  *)
(* which float64 division and the 0.6/0.4 weighting keep distinct scores   *)
(* distinct and ordered.                                                    *)
(***************************************************************************)
lessBridge(bi, bj) ==
    bi.TotalDays * bj.VacationDaysUsed > bj.TotalDays * bi.VacationDaysUsed

lessLongest(bi, bj) == bi.TotalDays > bj.TotalDays

\* scoreI = effI*0.6 + TotalDays_I*0.4, times 10 * VDU_I * VDU_J
lessBalanced(bi, bj) ==
    (6 * bi.TotalDays + 4 * bi.TotalDays * bi.VacationDaysUsed) * bj.VacationDaysUsed
    > (6 * bj.TotalDays + 4 * bj.TotalDays * bj.VacationDaysUsed) * bi.VacationDaysUsed

Less(strategy, bi, bj) ==
    CASE strategy = "bridge_holidays" -> lessBridge(bi, bj)
      [] strategy = "longest_blocks" -> lessLongest(bi, bj)
      [] OTHER -> lessBalanced(bi, bj)

Swap(data, j) == [data EXCEPT ![j] = data[j - 1], ![j - 1] = data[j]]

RECURSIVE SinkLoop(_, _, _)
SinkLoop(strategy, data, j) ==
    IF j > 1 /\ Less(strategy, data[j], data[j - 1])
    THEN SinkLoop(strategy, Swap(data, j), j - 1)
    ELSE data

RECURSIVE InsertionLoop(_, _, _)
InsertionLoop(strategy, data, i) ==
    IF i > Len(data) THEN data
    ELSE InsertionLoop(strategy, SinkLoop(strategy, data, i), i + 1)

\* (mutant: the candidates are left in enumeration order)
MutSortSlice(strategy, data) == data

SortSlice(strategy, data) == InsertionLoop(strategy, data, 2)

(***************************************************************************)
(* selectBlocks: the greedy scan.  st = [selected, usedDays, usedDates].   *)
(***************************************************************************)
\* (mutant: the budget test is missing)
MutFitsBudget(usedDays, block) == TRUE

FitsBudget(usedDays, block) == ~(usedDays + block.VacationDaysUsed > VacationDays)

\* (mutant: the overlap test is missing)
MutHasOverlap(usedDates, block) == FALSE

HasOverlap(usedDates, block) == \E k \in 1..Len(block.Dates) : block.Dates[k] \in usedDates

\* (mutant: the scan stops at the first candidate that does not fit)
RECURSIVE MutSelectLoop(_, _, _)
MutSelectLoop(opportunities, i, st) ==
    IF i > Len(opportunities) THEN st.selected
    ELSE LET block == opportunities[i]
         IN  IF ~FitsBudget(st.usedDays, block) THEN st.selected
             ELSE IF HasOverlap(st.usedDates, block)
             THEN MutSelectLoop(opportunities, i + 1, st)
             ELSE LET st2 == [selected |-> Append(st.selected, block),
                              usedDays |-> st.usedDays + block.VacationDaysUsed,
                              usedDates |-> st.usedDates \cup Range(block.Dates)]
                  IN  IF st2.usedDays >= VacationDays THEN st2.selected
                      ELSE MutSelectLoop(opportunities, i + 1, st2)

RECURSIVE SelectLoop(_, _, _)
SelectLoop(opportunities, i, st) ==
    IF i > Len(opportunities) THEN st.selected
    ELSE LET block == opportunities[i]
         IN  IF ~FitsBudget(st.usedDays, block) THEN SelectLoop(opportunities, i + 1, st)
             ELSE IF HasOverlap(st.usedDates, block) THEN SelectLoop(opportunities, i + 1, st)
             ELSE LET st2 == [selected |-> Append(st.selected, block),
                              usedDays |-> st.usedDays + block.VacationDaysUsed,
                              usedDates |-> st.usedDates \cup Range(block.Dates)]
                  IN  IF st2.usedDays >= VacationDays THEN st2.selected
                      ELSE SelectLoop(opportunities, i + 1, st2)

selectBlocks(opportunities) ==
    SelectLoop(opportunities, 1,
               [selected |-> <<>>, usedDays |-> 0, usedDates |-> Range(ManualVacations)])

bridgeHolidays == selectBlocks(SortSlice("bridge_holidays", findBridgeOpportunities))

longestBlocks == selectBlocks(SortSlice("longest_blocks", findAllOpportunities))

balanced == selectBlocks(SortSlice("balanced", findAllOpportunities))

\* (mutant: an unknown strategy runs bridgeHolidays)
MutDefaultStrategy == bridgeHolidays

\* `default: return o.balanced()`
DefaultStrategy == balanced

OptimizeResult ==
    CASE Strategy = "bridge_holidays" -> bridgeHolidays
      [] Strategy = "longest_blocks" -> longestBlocks
      [] Strategy = "balanced" -> balanced
      [] OTHER -> DefaultStrategy

(***************************************************************************)
(* Handler.datesToBlocks(vacationDates, holidayList, workWeek).            *)
(***************************************************************************)
\* time.Weekday.String()
WeekdayString(day) ==
    CASE day = Monday -> "Monday"
      [] day = Tuesday -> "Tuesday"
      [] day = Wednesday -> "Wednesday"
      [] day = Thursday -> "Thursday"
      [] day = Friday -> "Friday"
      [] day = Saturday -> "Saturday"
      [] OTHER -> "Sunday"

\* strings.ToLower on weekday names
ToLower(name) ==
    CASE name \in {"Monday", "monday"} -> "monday"
      [] name \in {"Tuesday", "tuesday"} -> "tuesday"
      [] name \in {"Wednesday", "wednesday"} -> "wednesday"
      [] name \in {"Thursday", "thursday"} -> "thursday"
      [] name \in {"Friday", "friday"} -> "friday"
      [] name \in {"Saturday", "saturday"} -> "saturday"
      [] name \in {"Sunday", "sunday"} -> "sunday"
      [] OTHER -> name

\* (mutant: Saturday and Sunday are never work days)
MutD2bIsWeekend(workWeek, date) ==
    \/ Weekday(date) \in {Saturday, Sunday}
    \/ ToLower(WeekdayString(Weekday(date))) \notin {ToLower(workWeek[i]) : i \in 1..Len(workWeek)}

\* (mutant: the work-day lookup finds nothing, every day is a day off)
MutD2bNoWorkDay(workWeek, date) == TRUE

\* isWeekend closure of datesToBlocks: !workDayMap[lower(weekday name)]
d2bIsWeekend(workWeek, date) ==
    ToLower(WeekdayString(Weekday(date))) \notin {ToLower(workWeek[i]) : i \in 1..Len(workWeek)}

\* (mutant: the holiday lookup is missing)
MutD2bIsHoliday(holidayList, dateStr) == FALSE

\* holidayMap[dateStr]
d2bIsHoliday(holidayList, dateStr) == dateStr \in Range(holidayList)

\* time.Parse("2006-01-02", s) returns no error: s is a <<year, month, day>>
\* triple that names a day of the calendar.  Other strings are modelled by
\* sequences that are not such triples: <<>> is "", <<y, m, d, 0>> is the
\* date string followed by extra text, <<y, 2, 30>> is a day out of range.
Parsable(s) ==
    /\ Len(s) = 3
    /\ s[2] \in 1..12
    /\ s[3] \in 1..DaysInMonth(s[1], s[2])

\* string order: field by field ("YYYY-MM-DD" has fixed-width fields), a
\* proper prefix before its extensions
RECURSIVE LexLess(_, _, _)
LexLess(a, b, i) ==
    IF i > Len(b) THEN FALSE
    ELSE IF i > Len(a) THEN TRUE
    ELSE IF a[i] < b[i] THEN TRUE
    ELSE IF a[i] > b[i] THEN FALSE
    ELSE LexLess(a, b, i + 1)

StrLess(a, b) == LexLess(a, b, 1)

\* (mutant: the list is not sorted)
MutSortStrings(seq) == seq

\* sort.Strings: the sorted permutation (equal strings are indistinguishable)
RECURSIVE InsertString(_, _, _)
InsertString(sorted, x, i) ==
    IF i > Len(sorted) THEN Append(sorted, x)
    ELSE IF StrLess(x, sorted[i])
         THEN SubSeq(sorted, 1, i - 1) \o <<x>> \o SubSeq(sorted, i, Len(sorted))
         ELSE InsertString(sorted, x, i + 1)

RECURSIVE SortLoop(_, _, _)
SortLoop(seq, i, sorted) ==
    IF i > Len(seq) THEN sorted
    ELSE SortLoop(seq, i + 1, InsertString(sorted, seq[i], 1))

SortStrings(seq) == SortLoop(seq, 1, <<>>)

\* the inner loop at one block: walk from the day after the block's end
\* towards vacDate.  Returns [block, added].
RECURSIVE ExtendLoop(_, _, _, _, _)
ExtendLoop(holidayList, workWeek, block, dayAfterBlock, vacDate) ==
    IF dayAfterBlock > vacDate THEN [block |-> block, added |-> FALSE]
    ELSE LET dateStr == Format(dayAfterBlock)
         IN  IF dayAfterBlock = vacDate
             THEN [block |-> [block EXCEPT !.EndDate = dateStr,
                                           !.Dates = Append(@, dateStr),
                                           !.TotalDays = @ + 1,
                                           !.VacationDaysUsed = @ + 1],
                   added |-> TRUE]
             ELSE IF d2bIsWeekend(workWeek, dayAfterBlock) \/ d2bIsHoliday(holidayList, dateStr)
             THEN ExtendLoop(holidayList, workWeek,
                     IF d2bIsWeekend(workWeek, dayAfterBlock)
                     THEN [block EXCEPT !.EndDate = dateStr, !.Dates = Append(@, dateStr),
                                        !.TotalDays = @ + 1, !.Weekends = Append(@, dateStr)]
                     ELSE [block EXCEPT !.EndDate = dateStr, !.Dates = Append(@, dateStr),
                                        !.TotalDays = @ + 1, !.Holidays = Append(@, dateStr)],
                     dayAfterBlock + 1, vacDate)
             ELSE [block |-> block, added |-> FALSE]

\* `for i := range blocks`: try the blocks in order.  Returns [blocks, added].
RECURSIVE FindBlockLoop(_, _, _, _, _)
FindBlockLoop(holidayList, workWeek, blocks, i, vacDate) ==
    IF i > Len(blocks) THEN [blocks |-> blocks, added |-> FALSE]
    ELSE LET r == ExtendLoop(holidayList, workWeek, blocks[i],
                             Parse(blocks[i].EndDate) + 1, vacDate)
             blocks2 == [blocks EXCEPT ![i] = r.block]
         IN  IF r.added THEN [blocks |-> blocks2, added |-> TRUE]
             ELSE FindBlockLoop(holidayList, workWeek, blocks2, i + 1, vacDate)

\* the backward expansion of a new block.  acc = [startDate, preDates,
\* preWeekends, preHolidays, cut]; cut is set when the loop is still
\* running after Horizon days.
RECURSIVE BackLoop(_, _, _, _, _)
BackLoop(holidayList, workWeek, checkDate, acc, fuel) ==
    LET dateStr == Format(checkDate)
    IN  IF fuel = 0 THEN [acc EXCEPT !.cut = TRUE]
        ELSE IF d2bIsWeekend(workWeek, checkDate)
        THEN BackLoop(holidayList, workWeek, checkDate - 1,
                      [acc EXCEPT !.preDates = <<dateStr>> \o @,
                                  !.preWeekends = <<dateStr>> \o @,
                                  !.startDate = checkDate], fuel - 1)
        ELSE IF d2bIsHoliday(holidayList, dateStr)
        THEN BackLoop(holidayList, workWeek, checkDate - 1,
                      [acc EXCEPT !.preDates = <<dateStr>> \o @,
                                  !.preHolidays = <<dateStr>> \o @,
                                  !.startDate = checkDate], fuel - 1)
        ELSE acc

NewBlock(holidayList, workWeek, vacDate) ==
    LET vacDateStr == Format(vacDate)
        acc == BackLoop(holidayList, workWeek, vacDate - 1,
                        [startDate |-> vacDate, preDates |-> <<>>, preWeekends |-> <<>>,
                         preHolidays |-> <<>>, cut |-> FALSE], Horizon)
    IN  [block |-> [StartDate |-> Format(acc.startDate),
                    EndDate |-> vacDateStr,
                    TotalDays |-> Len(acc.preDates) + 1,
                    VacationDaysUsed |-> 1,
                    Dates |-> Append(acc.preDates, vacDateStr),
                    Weekends |-> acc.preWeekends,
                    Holidays |-> acc.preHolidays],
         cut |-> acc.cut]

\* the grouping loop over the sorted dates.  st = [blocks, cut]
RECURSIVE GroupLoop(_, _, _, _, _)
GroupLoop(holidayList, workWeek, dates, k, st) ==
    IF k > Len(dates) \/ st.cut THEN st
    ELSE IF ~Parsable(dates[k]) THEN GroupLoop(holidayList, workWeek, dates, k + 1, st)
    ELSE LET vacDate == Parse(dates[k])
             f == FindBlockLoop(holidayList, workWeek, st.blocks, 1, vacDate)
         IN  IF f.added
             THEN GroupLoop(holidayList, workWeek, dates, k + 1, [st EXCEPT !.blocks = f.blocks])
             ELSE LET nb == NewBlock(holidayList, workWeek, vacDate)
                  IN  GroupLoop(holidayList, workWeek, dates, k + 1,
                                [blocks |-> Append(f.blocks, nb.block), cut |-> nb.cut])

\* the forward expansion of one block.  Returns [block, cut].
RECURSIVE ForwardLoop(_, _, _, _, _)
ForwardLoop(holidayList, workWeek, block, checkDate, fuel) ==
    LET dateStr == Format(checkDate)
    IN  IF fuel = 0 THEN [block |-> block, cut |-> TRUE]
        ELSE IF d2bIsWeekend(workWeek, checkDate)
        THEN ForwardLoop(holidayList, workWeek,
                 [block EXCEPT !.EndDate = dateStr, !.Dates = Append(@, dateStr),
                               !.TotalDays = @ + 1, !.Weekends = Append(@, dateStr)],
                 checkDate + 1, fuel - 1)
        ELSE IF d2bIsHoliday(holidayList, dateStr)
        THEN ForwardLoop(holidayList, workWeek,
                 [block EXCEPT !.EndDate = dateStr, !.Dates = Append(@, dateStr),
                               !.TotalDays = @ + 1, !.Holidays = Append(@, dateStr)],
                 checkDate + 1, fuel - 1)
        ELSE [block |-> block, cut |-> FALSE]

RECURSIVE ExpandLoop(_, _, _, _)
ExpandLoop(holidayList, workWeek, st, i) ==
    IF i > Len(st.blocks) \/ st.cut THEN st
    ELSE LET r == ForwardLoop(holidayList, workWeek, st.blocks[i],
                              Parse(st.blocks[i].EndDate) + 1, Horizon)
         IN  ExpandLoop(holidayList, workWeek,
                        [blocks |-> [st.blocks EXCEPT ![i] = r.block], cut |-> r.cut], i + 1)

\* Returns [blocks, cut]: the blocks, or cut = TRUE when an expansion loop
\* did not stop within Horizon days.
datesToBlocks(vacationDates, holidayList, workWeek) ==
    IF Len(vacationDates) = 0 THEN [blocks |-> <<>>, cut |-> FALSE]
    ELSE LET sorted == SortStrings(vacationDates)
             grouped == GroupLoop(holidayList, workWeek, sorted, 1,
                                  [blocks |-> <<>>, cut |-> FALSE])
         IN  ExpandLoop(holidayList, workWeek, grouped, 1)

(***************************************************************************)
(* The optimizer machine.                                                  *)
(***************************************************************************)
\* models.WorkWeekPresets
WorkWeekPresets ==
    { <<"monday", "tuesday", "wednesday", "thursday", "friday">>,
      <<"monday", "tuesday", "wednesday", "thursday">>,
      <<"tuesday", "wednesday", "thursday", "friday">>,
      <<"monday", "tuesday", "wednesday", "thursday", "friday", "saturday">>,
      <<>> }

Strategies == {"bridge_holidays", "longest_blocks", "balanced", "unknown_value"}

WindowDates == {Format(d) : d \in 0..(WindowLen - 1)}

SeqsUpTo(S, n) == UNION {[1..k -> S] : k \in 0..n}

\* holiday lists: up to MaxHolidays distinct dates of the window, in date
\* order (the API's order) or in reverse date order
HolidayLists ==
    {s \in SeqsUpTo(WindowDates, MaxHolidays) :
        \/ \A i \in 1..(Len(s) - 1) : StrLess(s[i], s[i + 1])
        \/ \A i \in 1..(Len(s) - 1) : StrLess(s[i + 1], s[i])}

\* NewOptimizerWithCity + SetManualVacations
NewOptimizer ==
    /\ Holidays \in HolidayLists
    /\ WorkWeek \in WorkWeekPresets
    /\ ManualVacations \in SeqsUpTo(WindowDates, 1)
    /\ VacationDays \in -1..MaxBudget
    /\ Strategy \in Strategies
    /\ result = <<>>
    /\ converted = [blocks |-> <<>>, cut |-> FALSE]
    /\ phase = "new"

\* blocks = opt.Optimize()
Optimize ==
    /\ phase = "new"
    /\ result' = OptimizeResult
    /\ phase' = "optimized"
    /\ UNCHANGED <<Holidays, WorkWeek, ManualVacations, VacationDays, Strategy, converted>>
    /\ UNCHANGED othersOfOpt

RECURSIVE AllDates(_, _)
AllDates(blocks, i) ==
    IF i > Len(blocks) THEN <<>> ELSE blocks[i].Dates \o AllDates(blocks, i + 1)

\* datesToBlocks on the dates[] of the returned blocks
ConvertBack ==
    /\ phase = "optimized"
    /\ converted' = datesToBlocks(AllDates(result, 1), Holidays, WorkWeek)
    /\ phase' = "converted"
    /\ UNCHANGED <<Holidays, WorkWeek, ManualVacations, VacationDays, Strategy, result>>
    /\ UNCHANGED othersOfOpt

NextOpt == Optimize \/ ConvertBack

(***************************************************************************)
(* The dates-to-blocks machine: one call of datesToBlocks on a bounded     *)
(* list of strings, and a second call on a rearrangement of that list.     *)
(***************************************************************************)
MaxDates == 3         \* strings in the list handed to datesToBlocks
MaxD2bHolidays == 1   \* holidays in the list handed to datesToBlocks

\* strings time.Parse rejects: "2025-01-03x" (extra text) and "2025-02-30"
\* (day out of range)
Unparsable == { <<Year, 1, 3, 0>>, <<Year, 2, 30>> }

VacationDateLists == SeqsUpTo(WindowDates \cup Unparsable, MaxDates)

\* how often a string is in a list
Count(list, x) == Cardinality({i \in 1..Len(list) : list[i] = x})

\* the lists that hold the same dates as often, in any order and with any
\* unparsable strings among them
Rearrangements(list) ==
    LET dates == {x \in Range(list) : Parsable(x)}
    IN  {other \in SeqsUpTo(dates \cup Unparsable, MaxDates) :
            \A x \in dates : Count(other, x) = Count(list, x)}

\* no call of datesToBlocks
D2bIdle ==
    /\ d2bArgs = [vacationDates |-> <<>>, holidayList |-> <<>>, workWeek |-> <<>>]
    /\ d2bRet = <<>>
    /\ d2bAgain = <<>>

\* the arguments of the call (year is the model's Year)
D2bStart ==
    /\ d2bArgs \in [vacationDates : VacationDateLists,
                    holidayList : SeqsUpTo(WindowDates, MaxD2bHolidays),
                    workWeek : WorkWeekPresets]
    /\ d2bRet = <<>>
    /\ d2bAgain = <<>>

\* blocks, err := h.datesToBlocks(year, vacationDates, holidayList, workWeek);
\* every return statement of datesToBlocks returns a nil error
Call(vacationDates) ==
    LET r == datesToBlocks(vacationDates, d2bArgs.holidayList, d2bArgs.workWeek)
    IN  [vacationDates |-> vacationDates, blocks |-> r.blocks, cut |-> r.cut, err |-> FALSE]

DatesToBlocks ==
    /\ d2bRet = <<>>
    /\ d2bRet' = <<Call(d2bArgs.vacationDates)>>
    /\ UNCHANGED <<d2bArgs, d2bAgain>>
    /\ UNCHANGED othersOfD2b

\* the same call on a rearrangement of the list
DatesToBlocksAgain ==
    /\ d2bRet # <<>>
    /\ d2bAgain = <<>>
    /\ \E other \in Rearrangements(d2bArgs.vacationDates) : d2bAgain' = <<Call(other)>>
    /\ UNCHANGED <<d2bArgs, d2bRet>>
    /\ UNCHANGED othersOfD2b

NextD2b == DatesToBlocks \/ DatesToBlocksAgain

(***************************************************************************)
(* The holiday functions of package holidays (models.go): the Easter       *)
(* computus, the fallback calendar and GetPortugueseHolidaysWithCity with  *)
(* its cache.  A time.Time of year y is modelled by its day number within  *)
(* y (0 = 1 January; AddDate may leave 0..DaysInYear(y)-1, and Format      *)
(* normalises as Go does).  A holiday is modelled by its date string.      *)
(***************************************************************************)
YearLo == 1900        \* the years asked about range over YearLo..YearHi
YearHi == 2100
MaxGets == 2          \* calls of GetPortugueseHolidaysWithCity per cache key

\* time.Date(y, time.Month(m), d, 0, 0, 0, 0, time.UTC)
Date(y, m, d) == DaysBeforeMonth(y, m) + d - 1

MutCalculateEaster(y) ==
    LET a == y % 19
        b == y \div 100
        c == y % 100
        d == b \div 4
        e == b % 4
        f == (b + 8) \div 25
        g == (b - f + 1) \div 3
        h == (19 * a + b - d - g + 15) % 30
        i == c \div 4
        k == c % 4
        l == (32 + 2 * e + 2 * i - h - k) % 7
        month == (h + l + 114) \div 31
        day == ((h + l + 114) % 31) + 1
    IN  Date(y, month, day)

calculateEaster(y) ==
    LET a == y % 19
        b == y \div 100
        c == y % 100
        d == b \div 4
        e == b % 4
        f == (b + 8) \div 25
        g == (b - f + 1) \div 3
        h == (19 * a + b - d - g + 15) % 30
        i == c \div 4
        k == c % 4
        l == (32 + 2 * e + 2 * i - h - k) % 7
        m == (a + 11 * h + 22 * l) \div 451
        month == (h + l - 7 * m + 114) \div 31
        day == ((h + l - 7 * m + 114) % 31) + 1
    IN  Date(y, month, day)

formatDate(y, m, d) == FormatFrom(y, Date(y, m, d))

getFallbackNationalHolidays(y) ==
    LET easter == calculateEaster(y)
        goodFriday == easter - 2
        corpusChristi == easter + 60
    IN  << formatDate(y, 1, 1), formatDate(y, 4, 25), formatDate(y, 5, 1),
           formatDate(y, 6, 10), formatDate(y, 8, 15), formatDate(y, 10, 5),
           formatDate(y, 11, 1), formatDate(y, 12, 1), formatDate(y, 12, 8),
           formatDate(y, 12, 25),
           FormatFrom(y, goodFriday),
           FormatFrom(y, easter),
           FormatFrom(y, corpusChristi) >>

\* what the Nager.Date API may answer for the year, and the rows of the
\* municipal source that are of the city asked about
ApiNational(y) == { <<>>, <<formatDate(y, 1, 1)>>, <<formatDate(y, 1, 1), formatDate(y, 12, 25)>> }

ApiMunicipal(y) == { <<>>, <<formatDate(y, 6, 13)>> }

NoEntry == [found |-> FALSE, list |-> <<>>]

NoCall == [n |-> 0, city |-> FALSE, hit |-> FALSE, failed |-> FALSE, list |-> <<>>]

\* package holidays before any call
HolIdle ==
    /\ year = Year
    /\ easterSunday = <<>>
    /\ holidayCache = [city \in BOOLEAN |-> NoEntry]
    /\ got = NoCall

\* package holidays before any call, asked about some year:
\* holidayCache = make(map[string][]PortugueseHoliday)
HolStart ==
    /\ year \in YearLo..YearHi
    /\ easterSunday = <<>>
    /\ holidayCache = [city \in BOOLEAN |-> NoEntry]
    /\ got = NoCall

\* easter := calculateEaster(year)
CalculateEaster ==
    /\ easterSunday = <<>>
    /\ easterSunday' = <<calculateEaster(year)>>
    /\ UNCHANGED <<year, holidayCache, got>>
    /\ UNCHANGED othersOfHol

\* GetPortugueseHolidaysWithCity(year, city): nat and mun are the fetches'
\* outcomes, <<>> for an error and <<payload>> for a list of holidays
GetPortugueseHolidaysWithCity(city, nat, mun) ==
    /\ got.n < MaxGets
    /\ LET cached == holidayCache[city]
           nationalHolidays == IF nat = <<>> THEN getFallbackNationalHolidays(year)
                               ELSE nat[1]
           holidays == IF city /\ mun # <<>> THEN nationalHolidays \o mun[1]
                        ELSE nationalHolidays
       IN  IF cached.found
           THEN /\ got' = [n |-> got.n + 1, city |-> city, hit |-> TRUE,
                           failed |-> FALSE, list |-> cached.list]
                /\ UNCHANGED holidayCache
           ELSE /\ holidayCache' = [holidayCache EXCEPT ![city] =
                                       [found |-> TRUE, list |-> holidays]]
                /\ got' = [n |-> got.n + 1, city |-> city, hit |-> FALSE,
                           failed |-> (nat = <<>>), list |-> holidays]
    /\ UNCHANGED <<year, easterSunday>>
    /\ UNCHANGED othersOfHol

Fetches(S) == {<<>>} \cup {<<x>> : x \in S}

NextHolidays ==
    \/ CalculateEaster
    \/ \E city \in BOOLEAN, nat \in Fetches(ApiNational(year)),
          mun \in Fetches(ApiMunicipal(year)) :
          GetPortugueseHolidaysWithCity(city, nat, mun)

(***************************************************************************)
(* The optimize handler machine: Handler.OptimizeVacations for year Year   *)
(* over the tables year_config, vacation_days and optimal_vacations.  The  *)
(* optimizer variables hold the Optimizer the handler builds (in the AI    *)
(* path: the arguments of smartOptimize), result the blocks it answers.    *)
(***************************************************************************)
MaxVacationDays == 3  \* year_config.vacation_days ranges over 0..MaxVacationDays
MaxReservedDays == 1  \* year_config.reserved_days ranges over 0..MaxReservedDays
MaxManual == 2        \* manual vacations of the year fall on days 1..MaxManual of the year
MaxAiDates == 2       \* strings in the AI's answer

StrategySmart == "smart"

\* the values a year_config row may hold
YearConfigs ==
    [VacationDays : 0..MaxVacationDays, ReservedDays : 0..MaxReservedDays,
     OptimizationStrategy : Strategies \cup {StrategySmart},
     WorkWeek : WorkWeekPresets]

\* the rows of the previous year: a balanced strategy on the standard week
PreviousYearConfigs ==
    {config \in YearConfigs :
        /\ config.OptimizationStrategy = "balanced"
        /\ config.WorkWeek = <<"monday", "tuesday", "wednesday", "thursday", "friday">>}

\* models.YearConfig{VacationDays: 22, ReservedDays: 0, ...}
DefaultYearConfig ==
    [VacationDays |-> 22, ReservedDays |-> 0, OptimizationStrategy |-> "balanced",
     WorkWeek |-> <<"monday", "tuesday", "wednesday", "thursday", "friday">>]

\* rows of vacation_days: UNIQUE(year, date)
VacationRows ==
    {[year |-> Year, date |-> Format(d)] : d \in 1..MaxManual}
        \cup {[year |-> Year - 1, date |-> Format(1)]}

\* getOrCreateYearConfig(year): the year's row, else a copy of the previous
\* year's row, else the defaults
getOrCreateYearConfig(y) ==
    IF y \in DOMAIN year_config THEN year_config[y]
    ELSE IF (y - 1) \in DOMAIN year_config THEN year_config[y - 1]
    ELSE DefaultYearConfig

\* a set of strings as a list, in string order
RECURSIVE SortedSeq(_)
SortedSeq(S) ==
    IF S = {} THEN <<>>
    ELSE LET x == CHOOSE x \in S : \A y \in S : ~StrLess(y, x)
         IN  <<x>> \o SortedSeq(S \ {x})

\* getVacations(year), and the Date of every row it returns
getVacations(y) == SortedSeq({row.date : row \in {r \in vacation_days : r.year = y}})

MutAvailableDays(config, manualDates) ==
    config.VacationDays - config.ReservedDays - Len(manualDates)

\* availableDays := config.VacationDays - config.ReservedDays - len(manualDates),
\* and 0 if that is negative
AvailableDays(config, manualDates) ==
    LET availableDays == config.VacationDays - config.ReservedDays - Len(manualDates)
    IN  IF availableDays < 0 THEN 0 ELSE availableDays

\* smartOptimize's filter of the AI's dates: parsable, on a work day, not a holiday
IsValidDate(dateStr, holidayList, workWeek) ==
    /\ Parsable(dateStr)
    /\ ~d2bIsWeekend(workWeek, Parse(dateStr))
    /\ ~d2bIsHoliday(holidayList, dateStr)

RECURSIVE ValidDates(_, _, _, _)
ValidDates(vacationDates, i, holidayList, workWeek) ==
    IF i > Len(vacationDates) THEN <<>>
    ELSE (IF IsValidDate(vacationDates[i], holidayList, workWeek)
          THEN <<vacationDates[i]>> ELSE <<>>)
         \o ValidDates(vacationDates, i + 1, holidayList, workWeek)

\* contains(list, date)
contains(list, date) == date \in Range(list)

\* the dates the handler stores for a block: those that spend a vacation day
StoredDates(block, manualDates) ==
    {block.Dates[i] : i \in {j \in 1..Len(block.Dates) :
        /\ ~contains(block.Weekends, block.Dates[j])
        /\ ~contains(block.Holidays, block.Dates[j])
        /\ ~contains(manualDates, block.Dates[j])}}

\* what the AI may answer
AiAnswers == SeqsUpTo(WindowDates \cup Unparsable, MaxAiDates)

\* empty tables
HndIdle ==
    /\ year_config = <<>>
    /\ vacation_days = {}
    /\ optimal_vacations = {}

\* the tables before the request, the year's holiday list as
\* GetPortugueseHolidaysWithCity answers it, and no Optimizer yet
HndStart ==
    /\ year_config \in [{Year} -> YearConfigs] \cup [{Year - 1} -> PreviousYearConfigs] \cup {<<>>}
    /\ vacation_days \in SUBSET VacationRows
    /\ optimal_vacations = {}
    /\ Holidays \in SeqsUpTo(WindowDates, MaxD2bHolidays)
    /\ WorkWeek = <<>>
    /\ ManualVacations = <<>>
    /\ VacationDays = 0
    /\ Strategy = ""
    /\ result = <<>>
    /\ converted = [blocks |-> <<>>, cut |-> FALSE]
    /\ phase = "idle"

\* POST /optimize/:year.  The handler is not a transaction: it reads the
\* tables, computes, and then writes, by separate statements.  The model
\* takes it in two steps, the reads and the building of the Optimizer
\* first, the optimization and the writes second.

\* config, manualDates, availableDays; in the regular path
\* NewOptimizerWithCity + SetManualVacations, in the AI path the arguments of
\* smartOptimize
OptimizeVacations ==
    LET config == getOrCreateYearConfig(Year)
        manualDates == getVacations(Year)
        availableDays == AvailableDays(config, manualDates)
    IN  /\ phase = "idle"
        /\ year_config' = IF Year \in DOMAIN year_config THEN year_config
                          ELSE (Year :> config) @@ year_config
        /\ VacationDays' = availableDays
        /\ WorkWeek' = config.WorkWeek
        /\ ManualVacations' = manualDates
        /\ Strategy' = config.OptimizationStrategy
        /\ phase' = "built"
        /\ UNCHANGED <<Holidays, result, converted, vacation_days, optimal_vacations>>
        /\ UNCHANGED othersOfHnd

\* blocks = opt.Optimize(), or smartOptimize with the balanced strategy as
\* its fallback; DELETE FROM optimal_vacations; INSERT OR REPLACE of the
\* dates that spend a vacation day.  ai is the outcome of smartOptimize's
\* request: <<>> for an error (no API key, request failed, no JSON array in
\* the answer), <<dates>> for the array of strings in the answer.
StoreOptimal(ai) ==
    LET smart == Strategy = StrategySmart /\ ai # <<>>
        blocks == IF smart
                  THEN datesToBlocks(ValidDates(ai[1], 1, Holidays, WorkWeek),
                                     Holidays, WorkWeek).blocks
                  ELSE IF Strategy = StrategySmart THEN balanced
                  ELSE OptimizeResult
    IN  /\ phase = "built"
        /\ Strategy # StrategySmart => ai = <<>>
        /\ Strategy' = IF Strategy = StrategySmart /\ ~smart THEN "balanced" ELSE Strategy
        /\ result' = blocks
        /\ optimal_vacations' =
               {row \in optimal_vacations : row.year # Year}
                   \cup {[year |-> Year, date |-> date] :
                            date \in UNION {StoredDates(blocks[i], ManualVacations) :
                                               i \in 1..Len(blocks)}}
        /\ phase' = "handled"
        /\ UNCHANGED <<Holidays, WorkWeek, ManualVacations, VacationDays, converted,
                       year_config, vacation_days>>
        /\ UNCHANGED othersOfHnd

NextHnd ==
    \/ OptimizeVacations
    \/ \E ai \in Fetches(AiAnswers) : StoreOptimal(ai)

(***************************************************************************)
(* The vacation tables machine: the requests that write vacation_days and  *)
(* optimal_vacations of year Year, one after the other: AddVacation,       *)
(* RemoveVacation, ClearOptimizedVacations, BulkUpdateVacations, the chat  *)
(* actions add_vacation, remove_vacation, clear_optimized and              *)
(* clear_all_vacations of executeSingleAction, and OptimizeVacations.  The *)
(* chat actions update_config and optimize write neither table and are     *)
(* left out.  Holidays is the list GetPortugueseHolidaysWithCity answers   *)
(* for the year.                                                           *)
(***************************************************************************)
MaxBulk == 2          \* dates in a list of a bulk update or of a chat action

\* the dates the requests name: the first days of the year
RequestDates == {Format(d) : d \in 0..MaxManual}

RequestLists == SeqsUpTo(RequestDates, MaxBulk)

\* the year's configuration: the standard week, no reserved days
TabConfigs ==
    {config \in YearConfigs :
        /\ config.VacationDays = MaxVacationDays
        /\ config.ReservedDays = 0
        /\ config.OptimizationStrategy \in {"balanced", StrategySmart}
        /\ config.WorkWeek = <<"monday", "tuesday", "wednesday", "thursday", "friday">>}

\* the year configured, no vacation stored yet
TabStart ==
    /\ HndStart
    /\ DOMAIN year_config = {Year}
    /\ year_config[Year] \in TabConfigs
    /\ vacation_days = {}

\* h.isHoliday(dateStr, year)
isHoliday(dateStr) == \E i \in 1..Len(Holidays) : Holidays[i] = dateStr

\* the rows of a table that a DELETE ... WHERE year = ? AND date = ? of each
\* date of the list leaves
DeleteDates(table, dates) ==
    {row \in table : ~(row.year = Year /\ row.date \in Range(dates))}

\* the rows an INSERT OR REPLACE of each date of the list makes
InsertDates(table, dates) ==
    table \cup {[year |-> Year, date |-> date] : date \in Range(dates)}

\* POST /vacations/:year
AddVacation(date) ==
    /\ phase = "idle"
    /\ vacation_days' = IF isHoliday(date) THEN vacation_days
                        ELSE InsertDates(vacation_days, <<date>>)
    /\ UNCHANGED <<optVars, year_config, optimal_vacations>>
    /\ UNCHANGED othersOfHnd

\* DELETE /vacations/:year/:date
RemoveVacation(date) ==
    /\ phase = "idle"
    /\ vacation_days' = DeleteDates(vacation_days, <<date>>)
    /\ UNCHANGED <<optVars, year_config, optimal_vacations>>
    /\ UNCHANGED othersOfHnd

\* DELETE FROM optimal_vacations WHERE year = ?
ClearOptimizedVacations ==
    /\ phase = "idle"
    /\ optimal_vacations' = {row \in optimal_vacations : row.year # Year}
    /\ UNCHANGED <<optVars, year_config, vacation_days>>
    /\ UNCHANGED othersOfHnd

\* PUT /vacations/:year/bulk: the removals, then the additions
BulkUpdateVacations(add, remove) ==
    /\ phase = "idle"
    /\ vacation_days' = InsertDates(DeleteDates(vacation_days, remove), add)
    /\ UNCHANGED <<optVars, year_config, optimal_vacations>>
    /\ UNCHANGED othersOfHnd

ChatActions == {"add_vacation", "remove_vacation", "clear_optimized", "clear_all_vacations"}

\* executeSingleAction(year, action)
executeSingleAction(actionType, dates) ==
    /\ phase = "idle"
    /\ actionType \in {"clear_optimized", "clear_all_vacations"} => dates = <<>>
    /\ vacation_days' =
          CASE actionType = "add_vacation" ->
                 InsertDates(vacation_days, SelectSeq(dates, LAMBDA d : ~isHoliday(d)))
            [] actionType = "remove_vacation" -> DeleteDates(vacation_days, dates)
            [] actionType = "clear_all_vacations" ->
                 {row \in vacation_days : row.year # Year}
            [] OTHER -> vacation_days
    /\ optimal_vacations' =
          CASE actionType = "remove_vacation" -> DeleteDates(optimal_vacations, dates)
            [] actionType \in {"clear_optimized", "clear_all_vacations"} ->
                 {row \in optimal_vacations : row.year # Year}
            [] OTHER -> optimal_vacations
    /\ UNCHANGED <<optVars, year_config>>
    /\ UNCHANGED othersOfHnd

\* c.JSON(http.StatusOK, ...) of OptimizeVacations: the request is over and
\* its Optimizer is gone
Respond ==
    /\ phase = "handled"
    /\ phase' = "idle"
    /\ WorkWeek' = <<>>
    /\ ManualVacations' = <<>>
    /\ VacationDays' = 0
    /\ Strategy' = ""
    /\ result' = <<>>
    /\ UNCHANGED <<Holidays, converted, year_config, vacation_days, optimal_vacations>>
    /\ UNCHANGED othersOfHnd

NextTab ==
    \/ \E date \in RequestDates : AddVacation(date)
    \/ \E date \in RequestDates : RemoveVacation(date)
    \/ ClearOptimizedVacations
    \/ \E add \in RequestLists, remove \in RequestLists : BulkUpdateVacations(add, remove)
    \/ \E actionType \in ChatActions, dates \in RequestLists :
          executeSingleAction(actionType, dates)
    \/ OptimizeVacations
    \/ \E ai \in Fetches(AiAnswers) : StoreOptimal(ai)
    \/ Respond

(***************************************************************************)
(* The holiday service (holidays/service.go), for one year.                *)
(*                                                                         *)
(* Every goroutine is a process with a program counter.  A critical        *)
(* section of statusMux or stopRetryMux is one step; every access to a     *)
(* HolidayStatus field made outside a critical section is made by a step   *)
(* of its own kind, so that two goroutines poised at such steps are        *)
(* running concurrently.  Error strings are modelled by "is not empty",    *)
(* times (LastUpdated, NextRetry) by the accesses made to them.  The       *)
(* outcome of an HTTP fetch and the age of LastUpdated are chosen by the   *)
(* environment.                                                            *)
(***************************************************************************)

MaxCalls == 2      \* API calls (each one a request goroutine)
MaxLoops == 2      \* stop channels made, hence retry goroutines started
maxRetries == 2    \* s.maxRetries, as set by SetRetryConfig

Threads == 1..MaxCalls
Chans == 1..MaxLoops

\* &HolidayStatus{Year: year, MaxRetries: s.maxRetries}
NewStatus ==
    [NationalLoaded |-> FALSE, MunicipalLoaded |-> FALSE,
     NationalError |-> FALSE, MunicipalError |-> FALSE,
     RetryCount |-> 0, IsRetrying |-> FALSE]

IdleReq ==
    [pc |-> "idle", op |-> "none", city |-> FALSE, status |-> 0,
     hasNational |-> FALSE, hasMunicipal |-> FALSE,
     retryNational |-> FALSE, stopChan |-> 0, fallback |-> FALSE]

NoLoop ==
    [pc |-> "none", status |-> 0, retryNational |-> FALSE,
     retryMunicipal |-> FALSE, allSuccess |-> FALSE]

\* a retry goroutine that has returned
ExitedLoop == [NoLoop EXCEPT !.pc = "exited"]

\* a request that has returned, and one ended by a panic (gin's recovery)
DoneReq == [IdleReq EXCEPT !.pc = "done"]
PanickedReq == [IdleReq EXCEPT !.pc = "panicked"]

\* request goroutines are interchangeable: they are numbered in the order
\* of their calls
MayCall(t) == req[t].pc = "idle" /\ \A u \in 1..(t - 1) : req[u].pc # "idle"

NoBg ==
    [pc |-> "none", status |-> 0, refreshNational |-> FALSE,
     refreshMunicipal |-> FALSE]

\* NewHolidayService
NewHolidayService ==
    /\ status = 0
    /\ heap = [o \in Threads |-> NewStatus]
    /\ stopRetry = 0
    /\ closed = [c \in Chans |-> FALSE]
    /\ nchan = 0
    /\ loop = [c \in Chans |-> NoLoop]
    /\ rounds = [c \in Chans |-> 0]
    /\ req = [t \in Threads |-> IdleReq]
    /\ bg = [t \in Threads |-> NoBg]
    /\ db = [national |-> FALSE, municipal |-> FALSE]
    /\ statusMuxLost = FALSE

\* close(stopChan) of the year's entry of s.stopRetry, if there is one
CloseExisting ==
    IF stopRetry = 0 THEN closed ELSE [closed EXCEPT ![stopRetry] = TRUE]

\* where fetchAndSave goes on after its national part
AfterNational(r) == IF r.city THEN "F_mun" ELSE "F_upd"

\* ---------------------------------------------------------------------
\* LoadHolidaysForYear

\* the call, and loadFromDatabase
LoadHolidaysForYear(t, city) ==
    /\ MayCall(t)
    /\ req' = [req EXCEPT ![t] = [IdleReq EXCEPT
                  !.pc = "L_init", !.op = "load", !.city = city,
                  !.hasNational = db.national,
                  !.hasMunicipal = db.municipal]]
    /\ UNCHANGED <<othersOfSvc, status, heap, stopRetry, closed, nchan, loop, rounds,
                   bg, db, statusMuxLost>>

\* "Initialize status": the critical section that makes the entry
LoadInitStatus(t) ==
    /\ req[t].pc = "L_init"
    /\ ~statusMuxLost
    /\ status' = IF status = 0 THEN t ELSE status
    /\ heap' = IF status = 0 THEN [heap EXCEPT ![t] = NewStatus] ELSE heap
    /\ req' = [req EXCEPT ![t].status = status',
                          ![t].pc = IF req[t].hasNational THEN "L_nat"
                                    ELSE IF req[t].hasMunicipal THEN "L_mun"
                                    ELSE "F_get"]
    /\ UNCHANGED <<othersOfSvc, stopRetry, closed, nchan, loop, rounds, bg, db,
                   statusMuxLost>>

\* if hasNational { status.NationalLoaded = true; status.NationalError = "" }
LoadNational(t) ==
    /\ req[t].pc = "L_nat"
    /\ heap' = [heap EXCEPT ![req[t].status].NationalLoaded = TRUE,
                            ![req[t].status].NationalError = FALSE]
    /\ req' = [req EXCEPT ![t].pc = IF req[t].hasMunicipal THEN "L_mun"
                                    ELSE "L_upd"]
    /\ UNCHANGED <<othersOfSvc, status, stopRetry, closed, nchan, loop, rounds, bg, db,
                   statusMuxLost>>

\* if hasMunicipal { status.MunicipalLoaded = true; status.MunicipalError = "" }
LoadMunicipal(t) ==
    /\ req[t].pc = "L_mun"
    /\ heap' = [heap EXCEPT ![req[t].status].MunicipalLoaded = TRUE,
                            ![req[t].status].MunicipalError = FALSE]
    /\ req' = [req EXCEPT ![t].pc = "L_upd"]
    /\ UNCHANGED <<othersOfSvc, status, stopRetry, closed, nchan, loop, rounds, bg, db,
                   statusMuxLost>>

\* len(dbHolidays) > 0: status.LastUpdated = now; go refreshInBackground;
\* return.  A refresh with nothing to refresh returns at once.
LoadReturn(t) ==
    /\ req[t].pc = "L_upd"
    /\ req' = [req EXCEPT ![t] = DoneReq]
    /\ bg' = IF ~req[t].hasNational \/ (~req[t].hasMunicipal /\ req[t].city)
             THEN [bg EXCEPT ![t] =
                     [pc |-> "get", status |-> 0,
                      refreshNational |-> ~req[t].hasNational,
                      refreshMunicipal |-> ~req[t].hasMunicipal /\ req[t].city]]
             ELSE bg
    /\ UNCHANGED <<othersOfSvc, status, heap, stopRetry, closed, nchan, loop, rounds, db,
                   statusMuxLost>>

\* ---------------------------------------------------------------------
\* fetchAndSave

\* status := s.status[year], under the lock
FetchGetStatus(t) ==
    /\ req[t].pc = "F_get"
    /\ ~statusMuxLost
    /\ req' = [req EXCEPT ![t].status = status, ![t].pc = "F_nat"]
    /\ UNCHANGED <<othersOfSvc, status, heap, stopRetry, closed, nchan, loop, rounds,
                   bg, db, statusMuxLost>>

\* fetchNationalHolidays and the writes that follow it.  Writing through a
\* nil status panics; gin's recovery ends the request.  On an error
\* nationalHolidays = getFallbackNationalHolidays(year) (fallback), which
\* the call returns in allHolidays if it returns.
FetchNational(t, ok) ==
    /\ req[t].pc = "F_nat"
    /\ IF req[t].status = 0
       THEN /\ req' = [req EXCEPT ![t] = PanickedReq]
            /\ UNCHANGED <<heap, db>>
       ELSE IF ok
       THEN /\ heap' = [heap EXCEPT ![req[t].status].NationalLoaded = TRUE,
                                    ![req[t].status].NationalError = FALSE]
            /\ db' = [db EXCEPT !.national = TRUE]
            /\ req' = [req EXCEPT ![t].pc = AfterNational(req[t])]
       ELSE /\ nchan < MaxLoops
            /\ heap' = [heap EXCEPT ![req[t].status].NationalError = TRUE,
                                    ![req[t].status].NationalLoaded = FALSE]
            /\ req' = [req EXCEPT ![t].pc = "S_stop",
                                  ![t].retryNational = TRUE,
                                  ![t].fallback = TRUE]
            /\ UNCHANGED db
    /\ UNCHANGED <<othersOfSvc, status, stopRetry, closed, nchan, loop, rounds, bg,
                   statusMuxLost>>

\* if city != "": fetchMunicipalHolidays and the writes that follow it
FetchMunicipal(t, ok) ==
    /\ req[t].pc = "F_mun"
    /\ IF ok
       THEN /\ heap' = [heap EXCEPT ![req[t].status].MunicipalLoaded = TRUE,
                                    ![req[t].status].MunicipalError = FALSE]
            /\ db' = [db EXCEPT !.municipal = TRUE]
            /\ req' = [req EXCEPT ![t].pc = "F_upd"]
       ELSE /\ nchan < MaxLoops
            /\ heap' = [heap EXCEPT ![req[t].status].MunicipalError = TRUE,
                                    ![req[t].status].MunicipalLoaded = FALSE]
            /\ req' = [req EXCEPT ![t].pc = "S_stop",
                                  ![t].retryNational = FALSE]
            /\ UNCHANGED db
    /\ UNCHANGED <<othersOfSvc, status, stopRetry, closed, nchan, loop, rounds, bg,
                   statusMuxLost>>

\* status.LastUpdated = time.Now(); return
FetchReturn(t) ==
    /\ req[t].pc = "F_upd"
    /\ req' = [req EXCEPT ![t] = DoneReq]
    /\ UNCHANGED <<othersOfSvc, status, heap, stopRetry, closed, nchan, loop, rounds,
                   bg, db, statusMuxLost>>

\* ---------------------------------------------------------------------
\* startBackgroundRetry

\* the stopRetryMux section: close the year's channel, install a new one
StartReplaceChan(t) ==
    /\ req[t].pc = "S_stop"
    /\ closed' = CloseExisting
    /\ nchan' = nchan + 1
    /\ stopRetry' = nchan + 1
    /\ req' = [req EXCEPT ![t].stopChan = nchan + 1, ![t].pc = "S_status"]
    /\ UNCHANGED <<othersOfSvc, status, heap, loop, rounds, bg, db, statusMuxLost>>

\* the statusMux section and the go statement.  status := s.status[year] is
\* nil when the entry was deleted meanwhile: the write panics between Lock
\* and Unlock, and the lock is never released.
StartResetStatus(t) ==
    /\ req[t].pc = "S_status"
    /\ ~statusMuxLost
    /\ IF status = 0
       THEN /\ statusMuxLost' = TRUE
            /\ req' = [req EXCEPT ![t] = PanickedReq]
            /\ UNCHANGED <<heap, loop>>
       ELSE /\ heap' = [heap EXCEPT ![status].RetryCount = 0,
                                    ![status].IsRetrying = TRUE]
            /\ loop' = [loop EXCEPT ![req[t].stopChan] =
                          [pc |-> "select", status |-> status,
                           retryNational |-> req[t].retryNational,
                           retryMunicipal |-> ~req[t].retryNational,
                           allSuccess |-> FALSE]]
            /\ req' = [req EXCEPT ![t].pc = IF req[t].retryNational
                                            THEN AfterNational(req[t])
                                            ELSE "F_upd",
                                  ![t].retryNational = FALSE,
                                  ![t].stopChan = 0]
            /\ UNCHANGED statusMuxLost
    /\ UNCHANGED <<othersOfSvc, status, stopRetry, closed, nchan, rounds, bg, db>>

\* ---------------------------------------------------------------------
\* the retry goroutine of channel c

\* case <-stopChan
LoopStopped(c) ==
    /\ loop[c].pc = "select"
    /\ closed[c]
    /\ ~statusMuxLost
    /\ heap' = [heap EXCEPT ![loop[c].status].IsRetrying = FALSE]
    /\ loop' = [loop EXCEPT ![c] = ExitedLoop]
    /\ UNCHANGED <<othersOfSvc, status, stopRetry, closed, nchan, rounds, req, bg, db,
                   statusMuxLost>>

\* case <-ticker.C: status.RetryCount++, and the test against s.maxRetries.
\* A select with both cases ready takes either.
LoopTick(c) ==
    /\ loop[c].pc = "select"
    /\ ~statusMuxLost
    /\ LET currentRetry == heap[loop[c].status].RetryCount + 1 IN
        /\ heap' = [heap EXCEPT ![loop[c].status].RetryCount = currentRetry]
        /\ loop' = [loop EXCEPT ![c].allSuccess = TRUE,
                                ![c].pc = IF currentRetry > maxRetries
                                          THEN "exhausted" ELSE "national"]
        /\ rounds' = IF currentRetry > maxRetries THEN rounds
                     ELSE [rounds EXCEPT ![c] = rounds[c] + 1]
    /\ UNCHANGED <<othersOfSvc, status, stopRetry, closed, nchan, req, bg, db,
                   statusMuxLost>>

\* currentRetry > s.maxRetries: status.IsRetrying = false; return
LoopExhausted(c) ==
    /\ loop[c].pc = "exhausted"
    /\ ~statusMuxLost
    /\ heap' = [heap EXCEPT ![loop[c].status].IsRetrying = FALSE]
    /\ loop' = [loop EXCEPT ![c] = ExitedLoop]
    /\ UNCHANGED <<othersOfSvc, status, stopRetry, closed, nchan, rounds, req, bg, db,
                   statusMuxLost>>

\* if retryNational && status.NationalError != "" { fetch ... }
LoopNational(c, ok) ==
    /\ loop[c].pc = "national"
    /\ IF loop[c].retryNational /\ heap[loop[c].status].NationalError
       THEN /\ ~statusMuxLost
            /\ IF ok
               THEN /\ db' = [db EXCEPT !.national = TRUE]
                    /\ heap' = [heap EXCEPT
                                  ![loop[c].status].NationalLoaded = TRUE,
                                  ![loop[c].status].NationalError = FALSE]
                    /\ loop' = [loop EXCEPT ![c].retryNational = FALSE,
                                            ![c].pc = "municipal"]
               ELSE /\ heap' = [heap EXCEPT
                                  ![loop[c].status].NationalError = TRUE]
                    /\ loop' = [loop EXCEPT ![c].allSuccess = FALSE,
                                            ![c].pc = "municipal"]
                    /\ UNCHANGED db
       ELSE /\ loop' = [loop EXCEPT ![c].pc = "municipal"]
            /\ UNCHANGED <<heap, db>>
    /\ UNCHANGED <<othersOfSvc, status, stopRetry, closed, nchan, rounds, req, bg,
                   statusMuxLost>>

\* if allSuccess || (!retryNational && !retryMunicipal), with the values the
\* round left in l
RoundDone(l) ==
    l.allSuccess \/ (~l.retryNational /\ ~l.retryMunicipal)

\* if retryMunicipal && status.MunicipalError != "" { fetch ... }
LoopMunicipal(c, ok) ==
    /\ loop[c].pc = "municipal"
    /\ IF loop[c].retryMunicipal /\ heap[loop[c].status].MunicipalError
       THEN /\ ~statusMuxLost
            /\ IF ok
               THEN /\ db' = [db EXCEPT !.municipal = TRUE]
                    /\ heap' = [heap EXCEPT
                                  ![loop[c].status].MunicipalLoaded = TRUE,
                                  ![loop[c].status].MunicipalError = FALSE]
                    /\ loop' = [loop EXCEPT ![c].retryMunicipal = FALSE,
                                            ![c].pc =
                                              IF RoundDone([loop[c] EXCEPT
                                                   !.retryMunicipal = FALSE])
                                              THEN "finish" ELSE "select"]
               ELSE /\ heap' = [heap EXCEPT
                                  ![loop[c].status].MunicipalError = TRUE]
                    /\ loop' = [loop EXCEPT ![c].allSuccess = FALSE,
                                            ![c].pc = "select"]
                    /\ UNCHANGED db
       ELSE /\ loop' = [loop EXCEPT ![c].pc = IF RoundDone(loop[c])
                                              THEN "finish" ELSE "select"]
            /\ UNCHANGED <<heap, db>>
    /\ UNCHANGED <<othersOfSvc, status, stopRetry, closed, nchan, rounds, req, bg,
                   statusMuxLost>>

\* "If all succeeded, stop retrying": IsRetrying = false, LastUpdated = now
LoopFinish(c) ==
    /\ loop[c].pc = "finish"
    /\ ~statusMuxLost
    /\ heap' = [heap EXCEPT ![loop[c].status].IsRetrying = FALSE]
    /\ loop' = [loop EXCEPT ![c] = ExitedLoop]
    /\ UNCHANGED <<othersOfSvc, status, stopRetry, closed, nchan, rounds, req, bg, db,
                   statusMuxLost>>

LoopStep(c) ==
    \/ LoopStopped(c)
    \/ LoopTick(c)
    \/ LoopExhausted(c)
    \/ \E ok \in BOOLEAN : LoopNational(c, ok)
    \/ \E ok \in BOOLEAN : LoopMunicipal(c, ok)
    \/ LoopFinish(c)

\* ---------------------------------------------------------------------
\* StopAllRetries, ClearStatus, ForceRefresh

StopAllRetries(t) ==
    /\ MayCall(t)
    /\ closed' = CloseExisting
    /\ stopRetry' = 0
    /\ req' = [req EXCEPT ![t] = DoneReq]
    /\ UNCHANGED <<othersOfSvc, status, heap, nchan, loop, rounds, bg, db, statusMuxLost>>

ClearStatus(t) ==
    /\ MayCall(t)
    /\ req' = [req EXCEPT ![t] = [IdleReq EXCEPT !.pc = "C_del",
                                                 !.op = "clear"]]
    /\ UNCHANGED <<othersOfSvc, status, heap, stopRetry, closed, nchan, loop, rounds,
                   bg, db, statusMuxLost>>

ForceRefresh(t, city) ==
    /\ MayCall(t)
    /\ req' = [req EXCEPT ![t] = [IdleReq EXCEPT !.pc = "C_del",
                                                 !.op = "refresh",
                                                 !.city = city]]
    /\ UNCHANGED <<othersOfSvc, status, heap, stopRetry, closed, nchan, loop, rounds,
                   bg, db, statusMuxLost>>

\* ClearStatus: delete(s.status, year), under statusMux
ClearDeleteStatus(t) ==
    /\ req[t].pc = "C_del"
    /\ ~statusMuxLost
    /\ status' = 0
    /\ req' = [req EXCEPT ![t].pc = "C_stop"]
    /\ UNCHANGED <<othersOfSvc, heap, stopRetry, closed, nchan, loop, rounds, bg, db,
                   statusMuxLost>>

\* ClearStatus: close and delete the year's channel, under stopRetryMux
ClearStopRetry(t) ==
    /\ req[t].pc = "C_stop"
    /\ closed' = CloseExisting
    /\ stopRetry' = 0
    /\ req' = [req EXCEPT ![t] = IF req[t].op = "clear" THEN DoneReq
                                  ELSE [req[t] EXCEPT !.pc = "R_db"]]
    /\ UNCHANGED <<othersOfSvc, status, heap, nchan, loop, rounds, bg, db, statusMuxLost>>

\* ForceRefresh: DELETE FROM holidays WHERE year = ?
RefreshDeleteRows(t) ==
    /\ req[t].pc = "R_db"
    /\ db' = [national |-> FALSE, municipal |-> FALSE]
    /\ req' = [req EXCEPT ![t].pc = "R_new"]
    /\ UNCHANGED <<othersOfSvc, status, heap, stopRetry, closed, nchan, loop, rounds,
                   bg, statusMuxLost>>

\* ForceRefresh: "Initialize new status", then fetchAndSave
RefreshNewStatus(t) ==
    /\ req[t].pc = "R_new"
    /\ ~statusMuxLost
    /\ status' = t
    /\ heap' = [heap EXCEPT ![t] = NewStatus]
    /\ req' = [req EXCEPT ![t].pc = "F_get"]
    /\ UNCHANGED <<othersOfSvc, stopRetry, closed, nchan, loop, rounds, bg, db,
                   statusMuxLost>>

\* ---------------------------------------------------------------------
\* refreshInBackground, spawned by request t

\* status := s.status[year] under RLock; return if nil
BgGetStatus(t) ==
    /\ bg[t].pc = "get"
    /\ ~statusMuxLost
    /\ bg' = [bg EXCEPT ![t] = IF status = 0 THEN NoBg
                               ELSE [bg[t] EXCEPT !.status = status,
                                                  !.pc = "stale"]]
    /\ UNCHANGED <<othersOfSvc, status, heap, stopRetry, closed, nchan, loop, rounds,
                   req, db, statusMuxLost>>

\* if time.Since(status.LastUpdated) < time.Hour { return }
BgCheckStale(t, recent) ==
    /\ bg[t].pc = "stale"
    /\ bg' = [bg EXCEPT ![t] = IF recent THEN NoBg
                               ELSE [bg[t] EXCEPT !.pc =
                                       IF bg[t].refreshNational
                                       THEN "national" ELSE "municipal"]]
    /\ UNCHANGED <<othersOfSvc, status, heap, stopRetry, closed, nchan, loop, rounds,
                   req, db, statusMuxLost>>

\* if refreshNational { fetch; on success save and write under the lock }
BgNational(t, ok) ==
    /\ bg[t].pc = "national"
    /\ IF ok
       THEN /\ ~statusMuxLost
            /\ db' = [db EXCEPT !.national = TRUE]
            /\ heap' = [heap EXCEPT ![bg[t].status].NationalLoaded = TRUE,
                                    ![bg[t].status].NationalError = FALSE]
       ELSE UNCHANGED <<heap, db>>
    /\ bg' = [bg EXCEPT ![t] = IF bg[t].refreshMunicipal
                               THEN [bg[t] EXCEPT !.pc = "municipal"]
                               ELSE NoBg]
    /\ UNCHANGED <<othersOfSvc, status, stopRetry, closed, nchan, loop, rounds, req,
                   statusMuxLost>>

\* if refreshMunicipal && city != "" { fetch; on success save and write }
BgMunicipal(t, ok) ==
    /\ bg[t].pc = "municipal"
    /\ IF ok
       THEN /\ ~statusMuxLost
            /\ db' = [db EXCEPT !.municipal = TRUE]
            /\ heap' = [heap EXCEPT ![bg[t].status].MunicipalLoaded = TRUE,
                                    ![bg[t].status].MunicipalError = FALSE]
       ELSE UNCHANGED <<heap, db>>
    /\ bg' = [bg EXCEPT ![t] = NoBg]
    /\ UNCHANGED <<othersOfSvc, status, stopRetry, closed, nchan, loop, rounds, req,
                   statusMuxLost>>

\* ---------------------------------------------------------------------

\* no Optimizer
OptIdle ==
    /\ Holidays = <<>>
    /\ WorkWeek = <<"monday", "tuesday", "wednesday", "thursday", "friday">>
    /\ ManualVacations = <<>>
    /\ VacationDays = 0
    /\ Strategy = "balanced"
    /\ result = <<>>
    /\ converted = [blocks |-> <<>>, cut |-> FALSE]
    /\ phase = "idle"

NextSvc ==
    \/ \E t \in Threads, city \in BOOLEAN : LoadHolidaysForYear(t, city)
    \/ \E t \in Threads : LoadInitStatus(t)
    \/ \E t \in Threads : LoadNational(t)
    \/ \E t \in Threads : LoadMunicipal(t)
    \/ \E t \in Threads : LoadReturn(t)
    \/ \E t \in Threads : FetchGetStatus(t)
    \/ \E t \in Threads, ok \in BOOLEAN : FetchNational(t, ok)
    \/ \E t \in Threads, ok \in BOOLEAN : FetchMunicipal(t, ok)
    \/ \E t \in Threads : FetchReturn(t)
    \/ \E t \in Threads : StartReplaceChan(t)
    \/ \E t \in Threads : StartResetStatus(t)
    \/ \E c \in Chans : LoopStep(c)
    \/ \E t \in Threads : StopAllRetries(t)
    \/ \E t \in Threads : ClearStatus(t)
    \/ \E t \in Threads, city \in BOOLEAN : ForceRefresh(t, city)
    \/ \E t \in Threads : ClearDeleteStatus(t)
    \/ \E t \in Threads : ClearStopRetry(t)
    \/ \E t \in Threads : RefreshDeleteRows(t)
    \/ \E t \in Threads : RefreshNewStatus(t)
    \/ \E t \in Threads : BgGetStatus(t)
    \/ \E t \in Threads, recent \in BOOLEAN : BgCheckStale(t, recent)
    \/ \E t \in Threads, ok \in BOOLEAN : BgNational(t, ok)
    \/ \E t \in Threads, ok \in BOOLEAN : BgMunicipal(t, ok)

\* Each machine starts with the other machines at rest.

\* NewOptimizerWithCity + SetManualVacations
InitOpt ==
    /\ NewOptimizer
    /\ NewHolidayService
    /\ HolIdle
    /\ D2bIdle
    /\ HndIdle

\* NewHolidayService
InitSvc ==
    /\ NewHolidayService
    /\ OptIdle
    /\ HolIdle
    /\ D2bIdle
    /\ HndIdle

\* package holidays, asked about a year of YearLo..YearHi
InitHol ==
    /\ HolStart
    /\ OptIdle
    /\ NewHolidayService
    /\ D2bIdle
    /\ HndIdle

\* a datesToBlocks call about to be made
InitD2b ==
    /\ D2bStart
    /\ OptIdle
    /\ NewHolidayService
    /\ HolIdle
    /\ HndIdle

\* an OptimizeVacations request about to be made
InitHnd ==
    /\ HndStart
    /\ NewHolidayService
    /\ HolIdle
    /\ D2bIdle

\* the vacation tables before the first request
InitTab ==
    /\ TabStart
    /\ NewHolidayService
    /\ HolIdle
    /\ D2bIdle

SpecOpt == InitOpt /\ [][NextOpt]_vars

SpecSvc == InitSvc /\ [][NextSvc]_vars

SpecHol == InitHol /\ [][NextHolidays]_vars

SpecD2b == InitD2b /\ [][NextD2b]_vars

SpecHnd == InitHnd /\ [][NextHnd]_vars

SpecTab == InitTab /\ [][NextTab]_vars

\* the Go scheduler runs every goroutine that can run, and the ticker of a
\* retry goroutine keeps firing
SpecSvcFair == SpecSvc /\ \A c \in Chans : WF_vars(LoopStep(c))

(***************************************************************************)
(* Properties of the optimizer machine.                                    *)
(***************************************************************************)
RECURSIVE SumUsed(_, _)
SumUsed(blocks, i) ==
    IF i > Len(blocks) THEN 0 ELSE blocks[i].VacationDaysUsed + SumUsed(blocks, i + 1)

Optimized == phase # "new"

\* C1: for a budget >= 0, the vacation_days_used of the returned blocks sum
\* to at most the budget.
C1_BudgetInvariant ==
    (Optimized /\ VacationDays >= 0) => SumUsed(result, 1) <= VacationDays

\* two blocks were selected and together they use the whole budget
C1_Witness ==
    /\ phase = "optimized"
    /\ Len(result) = 2
    /\ VacationDays > 0
    /\ SumUsed(result, 1) = VacationDays

\* C2: no date belongs to two returned blocks, and no returned block
\* contains a manual-vacation date.
C2_NoOverlap ==
    Optimized =>
        /\ \A i, j \in 1..Len(result) :
              i # j => Range(result[i].Dates) \cap Range(result[j].Dates) = {}
        /\ \A i \in 1..Len(result) :
              Range(result[i].Dates) \cap Range(ManualVacations) = {}

\* two blocks were selected although a candidate within budget overlapped a
\* manual vacation and another overlapped a selected block
C2_Witness ==
    /\ phase = "optimized"
    /\ Len(result) = 2
    /\ LET pool == IF Strategy = "bridge_holidays" THEN findBridgeOpportunities
                   ELSE findAllOpportunities
       IN  /\ \E k \in 1..Len(pool) :
                 /\ pool[k].VacationDaysUsed <= VacationDays
                 /\ Range(pool[k].Dates) \cap Range(ManualVacations) # {}
           /\ \E k \in 1..Len(pool) :
                 /\ pool[k].VacationDaysUsed <= VacationDays
                 /\ pool[k] \notin Range(result)
                 /\ Range(pool[k].Dates) \cap Range(ManualVacations) = {}
                 /\ \E i \in 1..Len(result) :
                       Range(pool[k].Dates) \cap Range(result[i].Dates) # {}

\* the dates of a block that cost a vacation day: work days of the work
\* week that are neither holidays nor manual vacations
SpendingDates(block) ==
    {k \in 1..Len(block.Dates) :
        /\ weekdayToString(Weekday(Parse(block.Dates[k]))) \in Range(WorkWeek)
        /\ block.Dates[k] \notin Range(Holidays)
        /\ block.Dates[k] \notin Range(ManualVacations)}

\* C3: every returned block has total_days = len(dates) = end - start + 1
\* and vacation_days_used = the number of its dates that are work days,
\* not holidays and not manual vacations.
C3_BlockIntegrity ==
    Optimized =>
        \A i \in 1..Len(result) :
            /\ result[i].TotalDays = Len(result[i].Dates)
            /\ result[i].TotalDays = Parse(result[i].EndDate) - Parse(result[i].StartDate) + 1
            /\ result[i].VacationDaysUsed = Cardinality(SpendingDates(result[i]))

\* a returned block that holds a weekend day, a holiday and a vacation day
C3_Witness ==
    /\ phase = "optimized"
    /\ \E i \in 1..Len(result) :
          /\ result[i].Weekends # <<>>
          /\ result[i].Holidays # <<>>
          /\ result[i].VacationDaysUsed >= 1
          /\ result[i].VacationDaysUsed < result[i].TotalDays

\* C4: with a budget of 0 or less Optimize returns the empty list.
C4_ZeroBudget ==
    (Optimized /\ VacationDays <= 0) => result = <<>>

\* Optimize ran with budget 0 on a non-empty candidate pool
C4_Witness ==
    /\ phase = "optimized"
    /\ VacationDays = 0
    /\ findBridgeOpportunities # <<>>
    /\ result = <<>>

Bounds(blocks) == {<<blocks[i].StartDate, blocks[i].EndDate>> : i \in 1..Len(blocks)}

\* C9 as claimed: datesToBlocks on the dates[] of the returned blocks
\* yields blocks with the same start and end dates as the Optimize blocks.
C9_RoundTripSame ==
    phase = "converted" => Bounds(converted.blocks) = Bounds(result)

ResultDates == UNION {Range(result[i].Dates) : i \in 1..Len(result)}

\* a day that datesToBlocks puts into a block next to it: a non-work day,
\* a holiday, or a date of a returned block
Absorbed(d) ==
    \/ weekdayToString(Weekday(d)) \notin Range(WorkWeek)
    \/ Format(d) \in Range(Holidays)
    \/ Format(d) \in ResultDates

RECURSIVE RunStart(_)
RunStart(d) == IF Absorbed(d - 1) THEN RunStart(d - 1) ELSE d

RECURSIVE RunEnd(_)
RunEnd(d) == IF Absorbed(d + 1) THEN RunEnd(d + 1) ELSE d

\* C9 as amended: for every returned block, datesToBlocks yields a block
\* that starts at the first and ends at the last day of the maximal run of
\* consecutive days around it that are non-work days, holidays or dates of
\* returned blocks; it contains the Optimize block, and has the same start
\* and end when the days next to the Optimize block are plain work days.
C9_RoundTripAbsorbs ==
    phase = "converted" =>
        /\ ~converted.cut
        /\ \A i \in 1..Len(result) :
              LET s == Parse(result[i].StartDate)
                  e == Parse(result[i].EndDate)
              IN  /\ <<Format(RunStart(s)), Format(RunEnd(e))>> \in Bounds(converted.blocks)
                  /\ (~Absorbed(s - 1) /\ ~Absorbed(e + 1)) =>
                        <<result[i].StartDate, result[i].EndDate>> \in Bounds(converted.blocks)
        /\ \A j \in 1..Len(converted.blocks) :
              \E i \in 1..Len(result) :
                  /\ Parse(converted.blocks[j].StartDate) <= Parse(result[i].StartDate)
                  /\ Parse(result[i].EndDate) <= Parse(converted.blocks[j].EndDate)

\* the conversion ran on two returned blocks, one reproduced with its own
\* boundaries and one absorbed into a longer block
C9_Witness ==
    /\ phase = "converted"
    /\ Len(result) = 2
    /\ \E i, j \in 1..Len(result) :
          /\ <<result[i].StartDate, result[i].EndDate>> \in Bounds(converted.blocks)
          /\ <<result[j].StartDate, result[j].EndDate>> \notin Bounds(converted.blocks)


StandardWeek == <<"monday", "tuesday", "wednesday", "thursday", "friday">>

\* the inputs of the Thursday scenario: standard work week, no manual
\* vacations, budget 1, bridge_holidays, one holiday, on a Thursday
ThursdayScenario ==
    /\ WorkWeek = StandardWeek
    /\ ManualVacations = <<>>
    /\ VacationDays = 1
    /\ Strategy = "bridge_holidays"
    /\ Len(Holidays) = 1
    /\ Weekday(Parse(Holidays[1])) = Thursday

\* C12: in the Thursday scenario Optimize returns exactly one block, from
\* the holiday to the day after it, with vacation_days_used = 1 and
\* total_days >= 2.
C12_ThursdayBridge ==
    (Optimized /\ ThursdayScenario) =>
        /\ Len(result) = 1
        /\ result[1].StartDate = Holidays[1]
        /\ result[1].EndDate = Format(Parse(Holidays[1]) + 1)
        /\ result[1].Dates = <<Holidays[1], Format(Parse(Holidays[1]) + 1)>>
        /\ result[1].VacationDaysUsed = 1
        /\ result[1].TotalDays >= 2

\* the Thursday scenario has been optimized
C12_Witness == Optimized /\ ThursdayScenario /\ Len(result) = 1

\* the windows the rule gives for a holiday on day h, in the order tried
RuleWindows(h) ==
    LET w == Weekday(h)
    IN  IF w = Monday THEN << <<h - 3, h>> >>
        ELSE IF w = Tuesday THEN << <<h - 1, h>> >>
        ELSE IF w = Wednesday THEN << <<h - 2, h>>, <<h, h + 2>> >>
        ELSE IF w = Thursday THEN << <<h, h + 1>> >>
        ELSE IF w = Friday THEN << <<h, h + 3>> >>
        ELSE << >>

\* the rule's windows that spend at least one vacation day, as blocks
RECURSIVE KeptWindows(_, _)
KeptWindows(ws, k) ==
    IF k > Len(ws) THEN <<>>
    ELSE LET b == calculateBlock(ws[k][1], ws[k][2])
         IN  (IF b.VacationDaysUsed >= 1 THEN <<b>> ELSE <<>>) \o KeptWindows(ws, k + 1)

RECURSIVE RuleCandidates(_)
RuleCandidates(i) ==
    IF i > Len(Holidays) THEN <<>>
    ELSE KeptWindows(RuleWindows(Parse(Holidays[i])), 1) \o RuleCandidates(i + 1)

\* C18: the bridge candidates are, holiday by holiday, exactly the windows
\* fixed by the holiday's weekday that use at least one vacation day.
C18_BridgeWindows ==
    Optimized => findBridgeOpportunities = RuleCandidates(1)

\* some window of a holiday is kept and some window is dropped for spending
\* no vacation day
C18_Witness ==
    /\ Optimized
    /\ findBridgeOpportunities # <<>>
    /\ \E i \in 1..Len(Holidays) :
          LET ws == RuleWindows(Parse(Holidays[i]))
          IN  \E k \in 1..Len(ws) :
                 calculateBlock(ws[k][1], ws[k][2]).VacationDaysUsed = 0

\* score(a) >= score(b) for the strategy in force, on exact fractions
ScoreGE(a, b) ==
    IF Strategy = "bridge_holidays"
    THEN a.TotalDays * b.VacationDaysUsed >= b.TotalDays * a.VacationDaysUsed
    ELSE IF Strategy = "longest_blocks"
    THEN a.TotalDays >= b.TotalDays
    ELSE (6 * a.TotalDays + 4 * a.TotalDays * a.VacationDaysUsed) * b.VacationDaysUsed
         >= (6 * b.TotalDays + 4 * b.TotalDays * b.VacationDaysUsed) * a.VacationDaysUsed

\* C19: the returned blocks are in non-increasing order of the strategy's
\* score.
C19_ScoreOrder ==
    Optimized =>
        \A i \in 1..Len(result), j \in 1..Len(result) :
            i < j => ScoreGE(result[i], result[j])

\* two blocks of different score have been returned
C19_Witness ==
    /\ Optimized
    /\ \E i \in 1..Len(result), j \in 1..Len(result) :
          i < j /\ ~ScoreGE(result[j], result[i])

\* the candidate pool of the strategy in force
Pool ==
    IF Strategy = "bridge_holidays" THEN findBridgeOpportunities
    ELSE findAllOpportunities

SharesDate(a, dates) == Range(a.Dates) \cap dates # {}

\* C20: every candidate that was not selected shares a date with a selected
\* block or with a manual vacation, or uses more vacation days than the
\* result left of the budget.
C20_Maximal ==
    Optimized =>
        LET pool == Pool
            left == VacationDays - SumUsed(result, 1)
        IN  \A k \in 1..Len(pool) :
                \/ \E i \in 1..Len(result) : result[i] = pool[k]
                \/ \E i \in 1..Len(result) :
                      SharesDate(pool[k], Range(result[i].Dates))
                \/ SharesDate(pool[k], Range(ManualVacations))
                \/ pool[k].VacationDaysUsed > left

\* a candidate that did not fit was skipped and a lower-ranked one selected
C20_Witness ==
    /\ Optimized
    /\ LET sorted == SortSlice(Strategy, Pool)
       IN  \E k \in 1..Len(sorted), l \in 1..Len(sorted) :
              /\ k < l
              /\ sorted[k].VacationDaysUsed > VacationDays
              /\ \E i \in 1..Len(result) : result[i] = sorted[l]

(***************************************************************************)
(* Properties of the dates-to-blocks machine.                              *)
(***************************************************************************)

\* the call has returned (its expansions stopped)
D2bReturned == d2bRet # <<>> /\ ~d2bRet[1].cut

\* the dates of the list
DatesOf(list) == {x \in Range(list) : Parsable(x)}

\* a and b are next to each other when the list's dates are put in order
ConsecutiveInOrder(list, a, b) ==
    \/ a = b /\ Count(list, a) >= 2
    \/ /\ StrLess(a, b)
       /\ ~\E c \in DatesOf(list) : StrLess(a, c) /\ StrLess(c, b)

SameBlock(blocks, a, b) ==
    \E i \in 1..Len(blocks) : a \in Range(blocks[i].Dates) /\ b \in Range(blocks[i].Dates)

\* every day strictly between a and b is a non-work day of the work week or
\* a holiday
NoWorkDayBetween(a, b) ==
    \A d \in (Parse(a) + 1)..(Parse(b) - 1) :
        \/ weekdayToString(Weekday(d)) \notin Range(d2bArgs.workWeek)
        \/ Format(d) \in Range(d2bArgs.holidayList)

\* C13: in datesToBlocks, two vacation dates that are consecutive in sorted
\* order end up in the same block if and only if every calendar day strictly
\* between them is a non-work day of the work week or a holiday.
C13_MergeIffNoGap ==
    D2bReturned =>
        \A a \in DatesOf(d2bArgs.vacationDates), b \in DatesOf(d2bArgs.vacationDates) :
            ConsecutiveInOrder(d2bArgs.vacationDates, a, b) =>
                (SameBlock(d2bRet[1].blocks, a, b) <=> NoWorkDayBetween(a, b))

\* a returned call with a pair merged across days off and a pair kept apart
C13_Witness ==
    /\ D2bReturned
    /\ \E a \in DatesOf(d2bArgs.vacationDates), b \in DatesOf(d2bArgs.vacationDates) :
          /\ ConsecutiveInOrder(d2bArgs.vacationDates, a, b)
          /\ Parse(b) - Parse(a) > 1
          /\ SameBlock(d2bRet[1].blocks, a, b)
    /\ \E a \in DatesOf(d2bArgs.vacationDates), b \in DatesOf(d2bArgs.vacationDates) :
          /\ ConsecutiveInOrder(d2bArgs.vacationDates, a, b)
          /\ ~SameBlock(d2bRet[1].blocks, a, b)

\* C14: the blocks returned by datesToBlocks do not depend on the order of
\* the input list, and adding unparsable date strings to the input does not
\* change them: unparsable entries are skipped without an error.
C14_OrderIndependent ==
    (d2bRet # <<>> /\ d2bAgain # <<>>) =>
        /\ d2bAgain[1].cut = d2bRet[1].cut
        /\ ~d2bRet[1].cut =>
              /\ d2bAgain[1].blocks = d2bRet[1].blocks
              /\ ~d2bRet[1].err
              /\ ~d2bAgain[1].err

\* two returned calls, the second on a list with its dates in another order
\* and an unparsable string more
C14_Witness ==
    /\ D2bReturned
    /\ d2bAgain # <<>>
    /\ Len(d2bRet[1].blocks) > 0
    /\ SelectSeq(d2bAgain[1].vacationDates, Parsable)
           # SelectSeq(d2bRet[1].vacationDates, Parsable)
    /\ Len(d2bAgain[1].vacationDates) > Len(d2bRet[1].vacationDates)

(***************************************************************************)
(* Properties of the optimize handler machine.                             *)
(***************************************************************************)

Max(a, b) == IF a >= b THEN a ELSE b

\* the rows of vacation_days stored under the year
ManualRows == {row \in vacation_days : row.year = Year}

\* vacation_days - reserved_days - number of manual vacation days of the year
Remaining ==
    year_config[Year].VacationDays - year_config[Year].ReservedDays
        - Cardinality(ManualRows)

GaussEaster(y) ==
    LET a == y % 19
        b == y % 4
        c == y % 7
        k == y \div 100
        p == (13 + 8 * k) \div 25
        q == k \div 4
        M == (15 - p + k - q) % 30
        N == (4 + k - q) % 7
        d == (19 * a + M) % 30
        e == (2 * b + 4 * c + 6 * d + N) % 7
        march == IF d = 29 /\ e = 6 THEN 50
                 ELSE IF d = 28 /\ e = 6 /\ (11 * M + 11) % 30 < 19 THEN 49
                 ELSE 22 + d + e
    IN  IF march <= 31 THEN <<y, 3, march>> ELSE <<y, 4, march - 31>>

\* C17: calculateEaster(year) returns the Gregorian Easter Sunday of that
\* year for every year of YearLo..YearHi, a Sunday; calculateEaster(2024) is
\* 31 March 2024 and calculateEaster(2025) is 20 April 2025.
C17_EasterSunday ==
    easterSunday # <<>> =>
        LET date == FormatFrom(year, easterSunday[1])
        IN  /\ date = GaussEaster(year)
            /\ (Jan1Weekday(year) + easterSunday[1]) % 7 = Sunday
            /\ year = 2024 => date = <<2024, 3, 31>>
            /\ year = 2025 => date = <<2025, 4, 20>>

\* calculateEaster has returned for one of the two years named
C17_Witness ==
    /\ easterSunday # <<>>
    /\ year \in {2024, 2025}

\* the fallback calendar of a year: the ten fixed-date national holidays,
\* Good Friday (Easter - 2 days), Easter Sunday and Corpus Christi
\* (Easter + 60 days)
FallbackCalendar(y) ==
    LET e == GaussEaster(y)
        easterDay == DaysBeforeMonth(y, e[2]) + e[3] - 1
    IN  { <<y, 1, 1>>, <<y, 4, 25>>, <<y, 5, 1>>, <<y, 6, 10>>, <<y, 8, 15>>,
          <<y, 10, 5>>, <<y, 11, 1>>, <<y, 12, 1>>, <<y, 12, 8>>, <<y, 12, 25>>,
          MonthDay(y, 1, easterDay - 2), e, MonthDay(y, 1, easterDay + 60) }

\* GetPortugueseHolidaysWithCity: when its fetch of the national holidays
\* fails, the list it returns holds the fallback calendar of the year.
FallbackReturned ==
    (got.n > 0 /\ got.failed) => FallbackCalendar(year) \subseteq Range(got.list)

(***************************************************************************)
(* Properties of the holiday service machine.                              *)
(***************************************************************************)

\* C16: whenever the fetch of national holidays fails, fetchAndSave
\* returns (no error, and a list containing the fallback calendar of the
\* year): no call whose national fetch fails, and no call that holds the
\* fallback calendar, ends in a panic instead of returning.
C16_FallbackReturnedBySave ==
    [][\A t \in Threads :
          (FetchNational(t, FALSE) \/ req[t].fallback) => req'[t].pc # "panicked"]_vars

\* C5: a retry loop whose stop channel has been closed (by a later
\* startBackgroundRetry, ClearStatus or StopAllRetries) begins no further
\* fetch round.
C5_CancelledLoopStops ==
    [][\A c \in Chans : closed[c] => rounds'[c] = rounds[c]]_vars

\* C6: no retry loop begins more than maxRetries fetch rounds.
C6_RoundsCapped == \A c \in Chans : rounds[c] <= maxRetries

\* C7: every retry loop that has been started eventually exits.
C7_LoopsExit ==
    \A c \in Chans : (loop[c].pc = "select") ~> (loop[c].pc = "exited")

\* an access a goroutine is about to make to a field of a HolidayStatus
Access(o, f, w, l) == [obj |-> o, field |-> f, write |-> w, locked |-> l]

\* the accesses of the next step of request t
ReqAccesses(t) ==
    LET r == req[t] IN
    CASE r.pc = "L_nat" ->
           {Access(r.status, f, TRUE, FALSE) :
              f \in {"NationalLoaded", "NationalError"}}
      [] r.pc = "L_mun" ->
           {Access(r.status, f, TRUE, FALSE) :
              f \in {"MunicipalLoaded", "MunicipalError"}}
      [] r.pc = "L_upd" -> {Access(r.status, "LastUpdated", TRUE, FALSE)}
      [] r.pc = "F_nat" /\ r.status # 0 ->
           {Access(r.status, f, TRUE, FALSE) :
              f \in {"NationalLoaded", "NationalError"}}
      [] r.pc = "F_mun" ->
           {Access(r.status, f, TRUE, FALSE) :
              f \in {"MunicipalLoaded", "MunicipalError"}}
      [] r.pc = "F_upd" -> {Access(r.status, "LastUpdated", TRUE, FALSE)}
      [] r.pc = "S_status" /\ status # 0 ->
           {Access(status, f, TRUE, TRUE) :
              f \in {"RetryCount", "IsRetrying", "NextRetry"}}
      [] OTHER -> {}

\* the accesses of the next step of the retry loop of channel c
LoopAccesses(c) ==
    LET l == loop[c] IN
    CASE l.pc = "select" ->
           {Access(l.status, "RetryCount", TRUE, TRUE)} \cup
           (IF closed[c] THEN {Access(l.status, "IsRetrying", TRUE, TRUE)}
            ELSE {})
      [] l.pc = "exhausted" -> {Access(l.status, "IsRetrying", TRUE, TRUE)}
      [] l.pc = "national" /\ l.retryNational ->
           {Access(l.status, "NationalError", FALSE, FALSE)} \cup
           (IF heap[l.status].NationalError
            THEN {Access(l.status, f, TRUE, TRUE) :
                    f \in {"NationalError", "NationalLoaded", "NextRetry"}}
            ELSE {})
      [] l.pc = "municipal" /\ l.retryMunicipal ->
           {Access(l.status, "MunicipalError", FALSE, FALSE)} \cup
           (IF heap[l.status].MunicipalError
            THEN {Access(l.status, f, TRUE, TRUE) :
                    f \in {"MunicipalError", "MunicipalLoaded", "NextRetry"}}
            ELSE {})
      [] l.pc = "finish" ->
           {Access(l.status, f, TRUE, TRUE) :
              f \in {"IsRetrying", "LastUpdated"}}
      [] OTHER -> {}

\* the accesses of the next step of the background refresh spawned by t
BgAccesses(t) ==
    LET b == bg[t] IN
    CASE b.pc = "stale" -> {Access(b.status, "LastUpdated", FALSE, FALSE)}
      [] b.pc = "national" ->
           {Access(b.status, f, TRUE, TRUE) :
              f \in {"NationalLoaded", "NationalError"}}
      [] b.pc = "municipal" ->
           {Access(b.status, f, TRUE, TRUE) :
              f \in {"MunicipalLoaded", "MunicipalError"}}
      [] OTHER -> {}

Goroutines ==
    ({"req"} \X Threads) \cup ({"loop"} \X Chans) \cup ({"bg"} \X Threads)

Accesses(g) ==
    IF g[1] = "req" THEN ReqAccesses(g[2])
    ELSE IF g[1] = "loop" THEN LoopAccesses(g[2])
    ELSE BgAccesses(g[2])

\* two accesses to the same field of the same object, one of them a write,
\* not both made with statusMux held
Conflict(x, y) ==
    /\ x.obj = y.obj
    /\ x.field = y.field
    /\ x.write \/ y.write
    /\ ~(x.locked /\ y.locked)

\* C8: no two goroutines are about to access the same field of the same
\* HolidayStatus, one of them writing, unless both hold statusMux.
C8_NoDataRace ==
    \A g \in Goroutines, h \in Goroutines :
        g # h => \A x \in Accesses(g), y \in Accesses(h) : ~Conflict(x, y)

\* C26: fetchAndSave and startBackgroundRetry find the year's entry in the
\* status map: no call reads a missing (nil) entry and writes a field
\* through it, which is the panic that ends the call.
C26_StatusEntryFound ==
    \A t \in Threads : req[t].pc # "panicked"

\* C30: the RetryCount of the year's holiday status never exceeds the
\* maximum retry count reported with it (s.maxRetries).
C30_RetryCountCapped ==
    status # 0 => heap[status].RetryCount <= maxRetries

\* C25: whenever a retry loop is running (started and not yet exited), the
\* status it retries for has IsRetrying = true, also when the loop has
\* replaced another one.
C25_RunningLoopIsRetrying ==
    \A c \in Chans :
        loop[c].pc \notin {"none", "exited"} => heap[loop[c].status].IsRetrying

\* C24: a running retry loop that still has to re-attempt the national
\* fetch (started after the national fetch failed, not yet successful) has
\* its stop channel closed only by ClearStatus or StopAllRetries, or by a
\* startBackgroundRetry that schedules a national retry again: no other
\* step, in particular no failure of the municipal fetch, unschedules it.
C24_NationalRetryStaysScheduled ==
    [][\A c \in Chans :
          (/\ loop[c].pc \notin {"none", "exited"}
           /\ loop[c].retryNational
           /\ ~closed[c]
           /\ closed'[c])
          => \/ \E t \in Threads : ClearStopRetry(t) \/ StopAllRetries(t)
             \/ \E t \in Threads : StartReplaceChan(t) /\ req[t].retryNational]_vars

(***************************************************************************)
(* Further properties of the optimizer machine.                            *)
(***************************************************************************)

\* C27: every date of every block returned by Optimize for the year lies
\* in that calendar year.
C27_DatesInYear ==
    Optimized =>
        \A i \in 1..Len(result) :
            \A d \in Range(result[i].Dates) : d[1] = Year

(***************************************************************************)
(* Further properties of the dates-to-blocks machine.                      *)
(***************************************************************************)

\* C28: the blocks returned by datesToBlocks are pairwise disjoint: no date
\* is in the dates[] of two blocks, whatever the order of the input list
\* and however often it holds a date.
C28_BlocksDisjoint ==
    D2bReturned =>
        \A i, j \in 1..Len(d2bRet[1].blocks) :
            i # j => Range(d2bRet[1].blocks[i].Dates)
                         \cap Range(d2bRet[1].blocks[j].Dates) = {}

\* C28 restricted to the lists that hold no date twice
C28_DisjointWithoutRepeats ==
    (\A x \in DatesOf(d2bArgs.vacationDates) : Count(d2bArgs.vacationDates, x) = 1)
        => C28_BlocksDisjoint

SmartOptimizeReturns ==
    (phase = "built" /\ Strategy = StrategySmart) =>
        \A ai \in AiAnswers :
            ~datesToBlocks(ValidDates(ai, 1, Holidays, WorkWeek), Holidays, WorkWeek).cut

OptimalRows == {row \in optimal_vacations : row.year = Year}

\* C22: after OptimizeVacations, with any strategy (the AI strategy smart
\* included), the year has at most
\* max(0, vacation_days - reserved_days - number of manual vacation days)
\* optimal-vacation rows.
C22_StoredWithinBudget ==
    phase = "handled" => Cardinality(OptimalRows) <= Max(0, Remaining)

\* C22 restricted to the requests that the Optimizer answered (a strategy
\* other than smart, or smart's fallback)
C22_OptimizerWithinBudget ==
    (phase = "handled" /\ Strategy # StrategySmart) => C22_StoredWithinBudget

(***************************************************************************)
(* Properties of the vacation tables machine.                              *)
(***************************************************************************)

\* C21: no request that adds manual vacations (AddVacation,
\* BulkUpdateVacations, the chat action add_vacation) inserts into
\* vacation_days a date that is in the year's holiday list at the time of
\* the request.
C21_NoVacationOnHoliday ==
    [][\A row \in vacation_days' \ vacation_days :
          row.year = Year => ~isHoliday(row.date)]_vars

\* C21 restricted to AddVacation and the chat action add_vacation
C21_CheckedRequests ==
    [][(\E add \in RequestLists, remove \in RequestLists :
            BulkUpdateVacations(add, remove))
       \/ \A row \in vacation_days' \ vacation_days :
             row.year = Year => ~isHoliday(row.date)]_vars

\* C23: no date of a year is stored both as a manual vacation
\* (vacation_days) and as an optimal vacation (optimal_vacations).
C23_ManualAndOptimalDisjoint ==
    \A m \in vacation_days, o \in optimal_vacations :
        ~(m.year = o.year /\ m.date = o.date)

====
